---- MODULE Spec2Model ----
(***************************************************************************)
(* The event coalescing and replay core of the kit/wsd session layer:      *)
(*   - SenderQueue<Item> (src/wsd/SenderQueue.hpp): the per-connection     *)
(*     outbound queue with deduplication at enqueue time;                  *)
(*   - ChildSession (src/kit/ChildSession.cpp): loKitCallback, the          *)
(*     recorder for an inactive user and the replay on "useractive".       *)
(***************************************************************************)
EXTENDS Naturals, Sequences, FiniteSets, TLC

(***************************************************************************)
(* Bounds of the model.                                                    *)
(***************************************************************************)
\* enqueue() calls in one behaviour of the queue specification
MaxEnq == 3
\* distinct payload texts a message may carry
MaxPayload == 2
\* engine callbacks delivered in one behaviour of the session specification
MaxCallbacks == 2
\* "useractive" commands handled in one behaviour of the session specification
MaxUserActive == 2
\* "useractive" commands handled in one behaviour of the lock specification
MaxLockReplays == 1

(***************************************************************************)
(* Messages.  A message is its first token (cmd), the tile descriptor of   *)
(* its first line (tile messages), the viewId of its JSON body, the rest   *)
(* of its payload, and the position in the producer's output (serial).     *)
(***************************************************************************)
NoTile == [part |-> 0, zoom |-> 0, x |-> 0, y |-> 0]

TileDescs ==
    { [part |-> 0, zoom |-> 1, x |-> 0, y |-> 0],
      [part |-> 0, zoom |-> 1, x |-> 1, y |-> 0],
      [part |-> 1, zoom |-> 1, x |-> 0, y |-> 0] }

\* the viewId of a JSON payload as Poco prints it; NoViewId: the payload
\* has no parsable viewId
NoViewId == "none"

ViewIds == {"1", "2"}

Payloads == 1 .. MaxPayload

\* the name of a name=value payload (state changes), or the command name of a
\* UNO command result; NoName: the payload carries none
NoName == "none"

Msg(c, t, v, p) ==
    [cmd |-> c, tile |-> t, viewId |-> v, name |-> NoName, payload |-> p]

\* what a producer may hand to enqueue().  deduplicate() never reads the
\* payload, so only the command it leaves alone comes in several payloads.
Items ==
    { Msg("tile:", t, NoViewId, 1) : t \in TileDescs }
    \cup { Msg(c, NoTile, NoViewId, 1) :
             c \in {"statusindicatorsetvalue:", "invalidatecursor:"} }
    \cup { Msg("statechanged:", NoTile, NoViewId, p) : p \in Payloads }
    \cup { Msg("invalidateviewcursor:", NoTile, v, 1) : v \in ViewIds \cup {NoViewId} }

Stamp(m, n) ==
    [cmd |-> m.cmd, tile |-> m.tile, viewId |-> m.viewId, name |-> m.name,
     payload |-> m.payload, serial |-> n]

NoItem == Stamp(Msg("", NoTile, NoViewId, 0), 0)

VARIABLES
    _queue,           \* SenderQueue::_queue
    _stop,            \* SenderQueue::_stop
    TerminationFlag,  \* the process-wide flag of common/SigUtil.hpp
    nEnq,             \* enqueue() calls made so far
    delivered,        \* the items dequeue() has returned, in order
    evicted,          \* the items deduplicate() has erased
    lastOp,           \* the last queue call: its name, argument and result
    _isActive,        \* Session::_isActive
    _isCloseFrame,    \* Session::_isCloseFrame
    _disconnected,    \* Session::_disconnected
    _isDocLoaded,     \* ChildSession::_isDocLoaded
    _docType,         \* ChildSession::_docType
    _stateRecorder,   \* ChildSession::_stateRecorder
    cb,               \* the engine thread: its place in loKitCallback
    input,            \* the input thread: its place in _handleInput
    engineLog,        \* the callbacks the engine has delivered, in order
    nUserActive,      \* "useractive" commands handled so far
    forwarded,        \* every frame given to sendTextFrame, in order
    locks,            \* the thread that holds each lock
    thread,           \* each thread's place in the queue call it is making
    appended          \* the items push_back has put into the queue

queueVars == <<_queue, _stop, TerminationFlag, nEnq, delivered, evicted, lastOp>>

lockVars == <<locks, thread, appended>>

sessionVars ==
    <<_isActive, _isCloseFrame, _disconnected, _isDocLoaded, _docType, _stateRecorder,
      cb, input, engineLog, nUserActive, forwarded>>

vars == <<queueVars, sessionVars, lockVars>>

\* the threads of the scheduling model: the engine delivers callbacks, the
\* input thread handles the commands of the client, the sender drains the queue
Threads == {"engine", "input", "sender"}

NoThread == "none"

\* SenderQueue::_mutex, ChildSession::Mutex, DocumentManagerInterface::
\* getDocumentMutex() and Session::getLock()
Locks == {"_mutex", "Mutex", "documentMutex", "getLock"}

(***************************************************************************)
(* Message / TileDesc accessors.                                           *)
(***************************************************************************)
firstToken(m) == m.cmd

TileDescParse(m) == m.tile

TileDescEq(a, b) ==
    a.part = b.part /\ a.zoom = b.zoom /\ a.x = b.x /\ a.y = b.y

\* Poco: parse(jsonString()) and get("viewId").toString() throw on a
\* payload without a parsable viewId
viewIdThrows(m) == m.viewId = NoViewId

(***************************************************************************)
(* SenderQueue                                                             *)
(***************************************************************************)
\* mutant: a queue of two messages counts as stopping
stopping_WhenLong == _stop \/ TerminationFlag \/ Len(_queue) >= 2

stopping == _stop \/ TerminationFlag

size == Len(_queue)

RemoveAt(q, i) == SubSeq(q, 1, i - 1) \o SubSeq(q, i + 1, Len(q))

\* std::find_if: the first of the positions that satisfy the predicate, 0 for end()
FindIf(hits) ==
    IF hits = {} THEN 0 ELSE CHOOSE i \in hits : \A j \in hits : i <= j

EraseFound(q, pos) == IF pos # 0 THEN RemoveAt(q, pos) ELSE q

\* mutant: any queued tile counts as the same tile
SameTile_AnyTile(item, cur) == firstToken(cur) = "tile:"

SameTile(item, cur) ==
    firstToken(cur) = "tile:" /\ TileDescEq(TileDescParse(item), TileDescParse(cur))

\* mutant: the first queued item matches, whatever its command
SameCommand_AnyCommand(item, cur) == TRUE

SameCommand(item, cur) == firstToken(cur) = firstToken(item)

\* mutant: the viewId is not compared
SameViewCursor_AnyView(item, cur) == firstToken(cur) = firstToken(item)

SameViewCursor(item, cur) ==
    firstToken(cur) = firstToken(item) /\ cur.viewId = item.viewId

\* deduplicate() leaves by an exception: the new item has no viewId, or
\* find_if meets a queued item without one before it finds a match
deduplicateThrows(q, item) ==
    /\ firstToken(item) = "invalidateviewcursor:"
    /\ \/ viewIdThrows(item)
       \/ \E i \in 1 .. Len(q) :
            /\ firstToken(q[i]) = firstToken(item)
            /\ viewIdThrows(q[i])
            /\ \A j \in 1 .. (i - 1) : ~SameViewCursor(item, q[j])

\* mutant: nothing is erased
deduplicate_NoErase(q, item) == q

\* mutant: every command is a single-message command
deduplicate_AnyCommand(q, item) ==
    EraseFound(q, FindIf({ i \in 1 .. Len(q) : SameCommand(item, q[i]) }))

\* the queue as deduplicate() leaves it when it returns (it always returns true)
deduplicate(q, item) ==
    LET command == firstToken(item) IN
    IF command = "tile:"
    THEN EraseFound(q, FindIf({ i \in 1 .. Len(q) : SameTile(item, q[i]) }))
    ELSE IF command \in {"statusindicatorsetvalue:", "invalidatecursor:"}
    THEN EraseFound(q, FindIf({ i \in 1 .. Len(q) : SameCommand(item, q[i]) }))
    ELSE IF command = "invalidateviewcursor:"
    THEN EraseFound(q, FindIf({ i \in 1 .. Len(q) : SameViewCursor(item, q[i]) }))
    ELSE q

\* mutant: the stopping flag is not looked at
enqueueResult_NoStopCheck(q, item) ==
    IF deduplicateThrows(q, item) THEN q ELSE Append(deduplicate(q, item), item)

\* mutant: push_front for push_back
enqueueResult_PushFront(q, item) ==
    IF stopping \/ deduplicateThrows(q, item)
    THEN q
    ELSE << item >> \o deduplicate(q, item)

\* the queue after enqueue(item)
enqueueResult(q, item) ==
    IF stopping \/ deduplicateThrows(q, item)
    THEN q
    ELSE Append(deduplicate(q, item), item)

Range(q) == { q[i] : i \in 1 .. Len(q) }

\* a queue call: its name, its argument (enqueue) or the item it returns
\* (dequeue), the length it returns, dequeue's result, whether it left by an
\* exception, and the length of the queue and the value of _stop when it was
\* made
Op(name, item, ret, ok, threw) ==
    [op |-> name, item |-> item, ret |-> ret, ok |-> ok, threw |-> threw,
     pre |-> Len(_queue), stopped |-> _stop]

\* mutant: enqueue() returns the length the queue had when it was called
enqueue_ReturnsOldSize(m) ==
    LET item == Stamp(m, nEnq + 1) IN
    /\ nEnq < MaxEnq
    /\ nEnq' = nEnq + 1
    /\ _queue' = enqueueResult(_queue, item)
    /\ evicted' = evicted \cup (Range(_queue) \ Range(_queue'))
    /\ lastOp' = Op("enqueue", item, Len(_queue), FALSE,
                    ~stopping /\ deduplicateThrows(_queue, item))
    /\ UNCHANGED <<_stop, TerminationFlag, delivered>>
    /\ UNCHANGED <<sessionVars, lockVars>>

enqueue(m) ==
    LET item == Stamp(m, nEnq + 1) IN
    /\ nEnq < MaxEnq
    /\ nEnq' = nEnq + 1
    /\ _queue' = enqueueResult(_queue, item)
    /\ evicted' = evicted \cup (Range(_queue) \ Range(_queue'))
    /\ lastOp' = Op("enqueue", item, Len(_queue'), FALSE,
                    ~stopping /\ deduplicateThrows(_queue, item))
    /\ UNCHANGED <<_stop, TerminationFlag, delivered>>
    /\ UNCHANGED <<sessionVars, lockVars>>

\* mutant: pop_back for pop_front
dequeue_PopBack ==
    /\ IF _queue # <<>> /\ ~stopping
       THEN /\ _queue' = SubSeq(_queue, 1, Len(_queue) - 1)
            /\ delivered' = Append(delivered, _queue[Len(_queue)])
            /\ lastOp' = Op("dequeue", _queue[Len(_queue)], 0, TRUE, FALSE)
       ELSE /\ lastOp' = Op("dequeue", NoItem, 0, FALSE, FALSE)
            /\ UNCHANGED <<_queue, delivered>>
    /\ UNCHANGED <<_stop, TerminationFlag, nEnq, evicted>>
    /\ UNCHANGED <<sessionVars, lockVars>>

\* mutant: dequeue() does not look at the stopping flag
dequeue_IgnoresStop ==
    /\ IF _queue # <<>>
       THEN /\ _queue' = Tail(_queue)
            /\ delivered' = Append(delivered, Head(_queue))
            /\ lastOp' = Op("dequeue", Head(_queue), 0, TRUE, FALSE)
       ELSE /\ lastOp' = Op("dequeue", NoItem, 0, FALSE, FALSE)
            /\ UNCHANGED <<_queue, delivered>>
    /\ UNCHANGED <<_stop, TerminationFlag, nEnq, evicted>>
    /\ UNCHANGED <<sessionVars, lockVars>>

dequeue ==
    /\ IF _queue # <<>> /\ ~stopping
       THEN /\ _queue' = Tail(_queue)
            /\ delivered' = Append(delivered, Head(_queue))
            /\ lastOp' = Op("dequeue", Head(_queue), 0, TRUE, FALSE)
       ELSE /\ lastOp' = Op("dequeue", NoItem, 0, FALSE, FALSE)
            /\ UNCHANGED <<_queue, delivered>>
    /\ UNCHANGED <<_stop, TerminationFlag, nEnq, evicted>>
    /\ UNCHANGED <<sessionVars, lockVars>>

sizeCall ==
    /\ lastOp' = Op("size", NoItem, size, FALSE, FALSE)
    /\ UNCHANGED <<_queue, _stop, TerminationFlag, nEnq, delivered, evicted>>
    /\ UNCHANGED <<sessionVars, lockVars>>

\* mutant: a second stop() resets the flag
stop_Toggle ==
    /\ _stop' = ~_stop
    /\ lastOp' = Op("stop", NoItem, 0, FALSE, FALSE)
    /\ UNCHANGED <<_queue, TerminationFlag, nEnq, delivered, evicted>>
    /\ UNCHANGED <<sessionVars, lockVars>>

stop ==
    /\ _stop' = TRUE
    /\ lastOp' = Op("stop", NoItem, 0, FALSE, FALSE)
    /\ UNCHANGED <<_queue, TerminationFlag, nEnq, delivered, evicted>>
    /\ UNCHANGED <<sessionVars, lockVars>>

(***************************************************************************)
(* The queue calls statement by statement, each under SenderQueue::_mutex. *)
(***************************************************************************)
\* the locks after thread t has taken the free lock l
Lock(l, t) == [locks EXCEPT ![l] = t]

\* the locks after the unique_lock of thread t on l is destroyed or unlocked
Unlock(l, t) == [locks EXCEPT ![l] = IF @ = t THEN NoThread ELSE @]

At(t, pc, item) == [thread EXCEPT ![t] = [pc |-> pc, item |-> item]]

\* std::deque::pop_front; the queue is never empty here under the lock
pop_front(q) == IF q = <<>> THEN q ELSE Tail(q)

\* enqueue(), line 57: the lock is taken
enqueueLock(t, m) ==
    /\ thread[t].pc = "idle"
    /\ nEnq < MaxEnq
    /\ locks["_mutex"] = NoThread
    /\ locks' = Lock("_mutex", t)
    /\ nEnq' = nEnq + 1
    /\ thread' = At(t, "enqueue:deduplicate", Stamp(m, nEnq + 1))
    /\ UNCHANGED <<_queue, _stop, TerminationFlag, delivered, evicted, lastOp, appended>>
    /\ UNCHANGED sessionVars

\* line 59: !stopping() && deduplicate(item); an exception of deduplicate
\* leaves enqueue and destroys the lock
enqueueDeduplicate(t) ==
    LET item == thread[t].item IN
    /\ thread[t].pc = "enqueue:deduplicate"
    /\ IF stopping
       THEN /\ thread' = At(t, "enqueue:return", item)
            /\ UNCHANGED <<_queue, evicted, lastOp, locks>>
       ELSE IF deduplicateThrows(_queue, item)
       THEN /\ thread' = At(t, "idle", NoItem)
            /\ locks' = Unlock("_mutex", t)
            /\ lastOp' = Op("enqueue", item, Len(_queue), FALSE, TRUE)
            /\ UNCHANGED <<_queue, evicted>>
       ELSE /\ thread' = At(t, "enqueue:push_back", item)
            /\ _queue' = deduplicate(_queue, item)
            /\ evicted' = evicted \cup (Range(_queue) \ Range(_queue'))
            /\ UNCHANGED <<lastOp, locks>>
    /\ UNCHANGED <<_stop, TerminationFlag, nEnq, delivered, appended>>
    /\ UNCHANGED sessionVars

\* line 60: _queue.push_back(item)
enqueuePush(t) ==
    /\ thread[t].pc = "enqueue:push_back"
    /\ _queue' = Append(_queue, thread[t].item)
    /\ appended' = appended \cup {thread[t].item}
    /\ thread' = At(t, "enqueue:return", thread[t].item)
    /\ UNCHANGED <<_stop, TerminationFlag, nEnq, delivered, evicted, lastOp, locks>>
    /\ UNCHANGED sessionVars

\* line 62: return _queue.size()
enqueueReturn(t) ==
    /\ thread[t].pc = "enqueue:return"
    /\ lastOp' = Op("enqueue", thread[t].item, Len(_queue), FALSE, FALSE)
    /\ locks' = Unlock("_mutex", t)
    /\ thread' = At(t, "idle", NoItem)
    /\ UNCHANGED <<_queue, _stop, TerminationFlag, nEnq, delivered, evicted, appended>>
    /\ UNCHANGED sessionVars

\* mutant: dequeue() does not take the lock
dequeueLock_NoLock(t) ==
    /\ thread[t].pc = "idle"
    /\ thread' = At(t, "dequeue:front", NoItem)
    /\ UNCHANGED <<queueVars, sessionVars, locks, appended>>

\* dequeue(), line 68: the lock is taken
dequeueLock(t) ==
    /\ thread[t].pc = "idle"
    /\ locks["_mutex"] = NoThread
    /\ locks' = Lock("_mutex", t)
    /\ thread' = At(t, "dequeue:front", NoItem)
    /\ UNCHANGED <<queueVars, sessionVars, appended>>

\* lines 70-72 and 76-80: the test, and item = _queue.front()
dequeueFront(t) ==
    /\ thread[t].pc = "dequeue:front"
    /\ IF _queue # <<>> /\ ~stopping
       THEN /\ thread' = At(t, "dequeue:pop_front", Head(_queue))
            /\ UNCHANGED <<lastOp, locks>>
       ELSE /\ thread' = At(t, "idle", NoItem)
            /\ lastOp' = Op("dequeue", NoItem, 0, FALSE, FALSE)
            /\ locks' = Unlock("_mutex", t)
    /\ UNCHANGED <<_queue, _stop, TerminationFlag, nEnq, delivered, evicted, appended>>
    /\ UNCHANGED sessionVars

\* lines 73-74: _queue.pop_front() and return true
dequeuePop(t) ==
    /\ thread[t].pc = "dequeue:pop_front"
    /\ _queue' = pop_front(_queue)
    /\ delivered' = Append(delivered, thread[t].item)
    /\ lastOp' = Op("dequeue", thread[t].item, 0, TRUE, FALSE)
    /\ locks' = Unlock("_mutex", t)
    /\ thread' = At(t, "idle", NoItem)
    /\ UNCHANGED <<_stop, TerminationFlag, nEnq, evicted, appended>>
    /\ UNCHANGED sessionVars

\* size(), line 86: the lock is taken
sizeLock(t) ==
    /\ thread[t].pc = "idle"
    /\ locks["_mutex"] = NoThread
    /\ locks' = Lock("_mutex", t)
    /\ thread' = At(t, "size:return", NoItem)
    /\ UNCHANGED <<queueVars, sessionVars, appended>>

\* line 87: return _queue.size()
sizeReturn(t) ==
    /\ thread[t].pc = "size:return"
    /\ lastOp' = Op("size", NoItem, Len(_queue), FALSE, FALSE)
    /\ locks' = Unlock("_mutex", t)
    /\ thread' = At(t, "idle", NoItem)
    /\ UNCHANGED <<_queue, _stop, TerminationFlag, nEnq, delivered, evicted, appended>>
    /\ UNCHANGED sessionVars

\* the signal handler of the process raises the termination flag
Terminate ==
    /\ ~TerminationFlag
    /\ TerminationFlag' = TRUE
    /\ lastOp' = Op("terminate", NoItem, 0, FALSE, FALSE)
    /\ UNCHANGED <<_queue, _stop, nEnq, delivered, evicted>>
    /\ UNCHANGED <<sessionVars, lockVars>>


(***************************************************************************)
(* Engine callbacks.  A callback is its LOK_CALLBACK_ type, the viewId and *)
(* the name its payload carries, and the rest of the payload; gen is its   *)
(* position in the engine's output.                                        *)
(***************************************************************************)
\* INT_MAX of <climits>
INT_MAX == 2147483647

\* the payload of a tile invalidation as the tokenizer of loKitCallback sees
\* it: "x, y, width, height, part" (kind "rect"; big holds the fields whose
\* text is an integer outside the range of int), "EMPTY, part" (kind
\* "empty"), or any other text (kind "other")
NoRect ==
    [kind |-> "other", x |-> 0, y |-> 0, width |-> 0, height |-> 0, part |-> 0,
     big |-> {}]

Rect(x, y, w, h, p, big) ==
    [kind |-> "rect", x |-> x, y |-> y, width |-> w, height |-> h, part |-> p,
     big |-> big]

EmptyRect(p) ==
    [kind |-> "empty", x |-> 0, y |-> 0, width |-> 0, height |-> 0, part |-> p,
     big |-> {}]

Event(t, v, n, p) ==
    [type |-> t, viewId |-> v, name |-> n, payload |-> p, rect |-> NoRect]

\* a tile invalidation with the payload r
TileEvent(r) ==
    [type |-> "INVALIDATE_TILES", viewId |-> NoViewId, name |-> NoName, payload |-> 1,
     rect |-> r]

WithGen(ev, g) ==
    [type |-> ev.type, viewId |-> ev.viewId, name |-> ev.name,
     payload |-> ev.payload, rect |-> ev.rect, gen |-> g]

NoEvent == WithGen(Event("", NoViewId, NoName, 0), 0)

\* the payload of the invalidation replay makes up: "0, 0, INT_MAX, INT_MAX, part"
FullExtent == 0

StateNames == {".uno:Bold", ".uno:Italic"}

\* what LOKitHelper::getDocumentTypeAsString may give
DocTypes == {"text", "spreadsheet"}

\* the callbacks the engine delivers in this model; two callbacks of the same
\* kind differ by gen
Callbacks ==
    { TileEvent(Rect(0, 0, 1, 1, 0, {})) }
    \cup { Event(t, NoViewId, NoName, 1) : t \in {"INVALIDATE_VISIBLE_CURSOR", "CELL_CURSOR"} }
    \cup { Event("INVALIDATE_VIEW_CURSOR", v, NoName, 1) : v \in ViewIds }
    \cup { Event("VIEW_LOCK", "1", NoName, 1) }
    \cup { Event("STATE_CHANGED", NoViewId, n, 1) : n \in StateNames }
    \cup { Event(t, NoViewId, NoName, 1) : t \in {"COMMENT", "REDLINE_TABLE_SIZE_CHANGED"} }
    \cup { Event("UNO_COMMAND_RESULT", NoViewId, n, 1) :
             n \in {".uno:Save", ".uno:SaveAs", ".uno:Bold"} }
    \cup { Event("MOUSE_POINTER", NoViewId, NoName, 1) }
    \cup { Event("DOCUMENT_SIZE_CHANGED", NoViewId, NoName, 1) }
    \cup { Event("DOCUMENT_PASSWORD", NoViewId, NoName, 1) }

\* the type lists of rememberEventsForInactiveUser
PerTypeEvents ==
    { "INVALIDATE_VISIBLE_CURSOR", "CURSOR_VISIBLE", "TEXT_SELECTION",
      "TEXT_SELECTION_START", "TEXT_SELECTION_END", "CELL_FORMULA", "CELL_CURSOR",
      "GRAPHIC_SELECTION", "DOCUMENT_SIZE_CHANGED", "INVALIDATE_HEADER",
      "CELL_ADDRESS" }

PerViewEvents ==
    { "INVALIDATE_VIEW_CURSOR", "TEXT_VIEW_SELECTION", "CELL_VIEW_CURSOR",
      "GRAPHIC_VIEW_SELECTION", "VIEW_CURSOR_VISIBLE", "VIEW_LOCK" }

SequenceEvents ==
    { "REDLINE_TABLE_SIZE_CHANGED", "REDLINE_TABLE_ENTRY_MODIFIED", "COMMENT" }

(***************************************************************************)
(* StateRecorder                                                           *)
(***************************************************************************)
EmptyRecorder ==
    [ _invalidate |-> FALSE,
      _recordedEvents |-> {},
      _recordedViewEvents |-> {},
      _recordedStates |-> {},
      _recordedEventsVector |-> <<>> ]

recordInvalidate(rec) == [rec EXCEPT !._invalidate = TRUE]

recordEvent(rec, ev) ==
    [rec EXCEPT !._recordedEvents = {e \in @ : e.type # ev.type} \cup {ev}]

recordViewEvent(rec, ev) ==
    [rec EXCEPT !._recordedViewEvents =
        {e \in @ : ~(e.viewId = ev.viewId /\ e.type = ev.type)} \cup {ev}]

recordState(rec, ev) ==
    [rec EXCEPT !._recordedStates = {e \in @ : e.name # ev.name} \cup {ev}]

recordEventSequence(rec, ev) ==
    [rec EXCEPT !._recordedEventsVector = Append(@, ev)]

clear(rec) == EmptyRecorder

\* mutant: every payload parses as a name and a value
parseNameValuePair_Always(ev) == TRUE

\* LOOLProtocol::parseNameValuePair(payload, name, value, '=')
parseNameValuePair(ev) == ev.name # NoName

\* mutant: a per-type event is appended to the sequence
rememberEventsForInactiveUser_TypeAsSequence(rec, ev) ==
    IF ev.type = "INVALIDATE_TILES" THEN recordInvalidate(rec)
    ELSE IF ev.type \in PerTypeEvents THEN recordEventSequence(rec, ev)
    ELSE IF ev.type \in PerViewEvents
    THEN IF ev.viewId = NoViewId THEN rec ELSE recordViewEvent(rec, ev)
    ELSE IF ev.type = "STATE_CHANGED"
    THEN IF parseNameValuePair(ev) THEN recordState(rec, ev) ELSE rec
    ELSE IF ev.type \in SequenceEvents THEN recordEventSequence(rec, ev)
    ELSE rec

\* mutant: a per-view event is recorded under the view "1", whatever its view
rememberEventsForInactiveUser_OneView(rec, ev) ==
    IF ev.type = "INVALIDATE_TILES" THEN recordInvalidate(rec)
    ELSE IF ev.type \in PerTypeEvents THEN recordEvent(rec, ev)
    ELSE IF ev.type \in PerViewEvents
    THEN IF ev.viewId = NoViewId THEN rec
         ELSE [rec EXCEPT !._recordedViewEvents = {e \in @ : e.type # ev.type} \cup {ev}]
    ELSE IF ev.type = "STATE_CHANGED"
    THEN IF parseNameValuePair(ev) THEN recordState(rec, ev) ELSE rec
    ELSE IF ev.type \in SequenceEvents THEN recordEventSequence(rec, ev)
    ELSE rec

\* mutant: one state is kept, whatever its name
rememberEventsForInactiveUser_OneState(rec, ev) ==
    IF ev.type = "INVALIDATE_TILES" THEN recordInvalidate(rec)
    ELSE IF ev.type \in PerTypeEvents THEN recordEvent(rec, ev)
    ELSE IF ev.type \in PerViewEvents
    THEN IF ev.viewId = NoViewId THEN rec ELSE recordViewEvent(rec, ev)
    ELSE IF ev.type = "STATE_CHANGED"
    THEN IF parseNameValuePair(ev)
         THEN [rec EXCEPT !._recordedStates = {ev}]
         ELSE rec
    ELSE IF ev.type \in SequenceEvents THEN recordEventSequence(rec, ev)
    ELSE rec

\* mutant: a sequence event replaces the recorded entries of its type
rememberEventsForInactiveUser_LatestOfSequence(rec, ev) ==
    IF ev.type = "INVALIDATE_TILES" THEN recordInvalidate(rec)
    ELSE IF ev.type \in PerTypeEvents THEN recordEvent(rec, ev)
    ELSE IF ev.type \in PerViewEvents
    THEN IF ev.viewId = NoViewId THEN rec ELSE recordViewEvent(rec, ev)
    ELSE IF ev.type = "STATE_CHANGED"
    THEN IF parseNameValuePair(ev) THEN recordState(rec, ev) ELSE rec
    ELSE IF ev.type \in SequenceEvents
    THEN [rec EXCEPT !._recordedEventsVector =
                        Append(SelectSeq(@, LAMBDA e : e.type # ev.type), ev)]
    ELSE rec

\* mutant: the result of a command is kept in the sequence
rememberEventsForInactiveUser_KeepsResult(rec, ev) ==
    IF ev.type = "INVALIDATE_TILES" THEN recordInvalidate(rec)
    ELSE IF ev.type \in PerTypeEvents THEN recordEvent(rec, ev)
    ELSE IF ev.type \in PerViewEvents
    THEN IF ev.viewId = NoViewId THEN rec ELSE recordViewEvent(rec, ev)
    ELSE IF ev.type = "STATE_CHANGED"
    THEN IF parseNameValuePair(ev) THEN recordState(rec, ev) ELSE rec
    ELSE IF ev.type \in SequenceEvents \cup {"UNO_COMMAND_RESULT"}
    THEN recordEventSequence(rec, ev)
    ELSE rec

\* the recorder after rememberEventsForInactiveUser(type, payload); a
\* per-view payload without a viewId makes the JSON access throw before
\* anything is recorded
rememberEventsForInactiveUser(rec, ev) ==
    IF ev.type = "INVALIDATE_TILES" THEN recordInvalidate(rec)
    ELSE IF ev.type \in PerTypeEvents THEN recordEvent(rec, ev)
    ELSE IF ev.type \in PerViewEvents
    THEN IF ev.viewId = NoViewId THEN rec ELSE recordViewEvent(rec, ev)
    ELSE IF ev.type = "STATE_CHANGED"
    THEN IF parseNameValuePair(ev) THEN recordState(rec, ev) ELSE rec
    ELSE IF ev.type \in SequenceEvents THEN recordEventSequence(rec, ev)
    ELSE rec

(***************************************************************************)
(* loKitCallback                                                           *)
(***************************************************************************)
\* the command token the switch of loKitCallback puts before the payload;
\* "" for a type the switch does not know
CommandOf(type) ==
    CASE type = "INVALIDATE_TILES" -> "invalidatetiles:"
      [] type = "INVALIDATE_VISIBLE_CURSOR" -> "invalidatecursor:"
      [] type = "TEXT_SELECTION" -> "textselection:"
      [] type = "TEXT_SELECTION_START" -> "textselectionstart:"
      [] type = "TEXT_SELECTION_END" -> "textselectionend:"
      [] type = "CURSOR_VISIBLE" -> "cursorvisible:"
      [] type = "GRAPHIC_SELECTION" -> "graphicselection:"
      [] type = "CELL_CURSOR" -> "cellcursor:"
      [] type = "CELL_FORMULA" -> "cellformula:"
      [] type = "MOUSE_POINTER" -> "mousepointer:"
      [] type = "HYPERLINK_CLICKED" -> "hyperlinkclicked:"
      [] type = "STATE_CHANGED" -> "statechanged:"
      [] type = "SEARCH_NOT_FOUND" -> "searchnotfound:"
      [] type = "SEARCH_RESULT_SELECTION" -> "searchresultselection:"
      [] type = "SET_PART" -> "setpart:"
      [] type = "UNO_COMMAND_RESULT" -> "unocommandresult:"
      [] type = "CONTEXT_MENU" -> "contextmenu:"
      [] type = "STATUS_INDICATOR_SET_VALUE" -> "statusindicatorsetvalue:"
      [] type = "INVALIDATE_VIEW_CURSOR" -> "invalidateviewcursor:"
      [] type = "TEXT_VIEW_SELECTION" -> "textviewselection:"
      [] type = "CELL_VIEW_CURSOR" -> "cellviewcursor:"
      [] type = "GRAPHIC_VIEW_SELECTION" -> "graphicviewselection:"
      [] type = "VIEW_CURSOR_VISIBLE" -> "viewcursorvisible:"
      [] type = "VIEW_LOCK" -> "viewlock:"
      [] type = "REDLINE_TABLE_SIZE_CHANGED" -> "redlinetablechanged:"
      [] type = "REDLINE_TABLE_ENTRY_MODIFIED" -> "redlinetablemodified:"
      [] type = "COMMENT" -> "comment:"
      [] type = "INVALIDATE_HEADER" -> "invalidateheader:"
      [] type = "CELL_ADDRESS" -> "celladdress:"
      [] type = "RULER_UPDATE" -> "rulerupdate:"
      [] type = "WINDOW" -> "window:"
      [] type = "VALIDITY_LIST_BUTTON" -> "validitylistbutton:"
      [] type = "SIGNATURE_STATUS" -> "signaturestatus:"
      [] type = "ERROR" -> "error:"
      [] type = "STATUS_INDICATOR_START" -> "statusindicatorstart:"
      [] type = "STATUS_INDICATOR_FINISH" -> "statusindicatorfinish:"
      [] type = "CLIPBOARD_CHANGED" -> "clipboardchanged:"
      [] OTHER -> ""

\* what follows the command of an invalidatetiles: frame: the payload as it
\* came (form "payload"), "EMPTY, part" (form "empty") or part= x= y= width=
\* height= (form "rect")
NoArea == [form |-> "payload", x |-> 0, y |-> 0, width |-> 0, height |-> 0]

EmptyArea == [form |-> "empty", x |-> 0, y |-> 0, width |-> 0, height |-> 0]

Area(x, y, w, h) == [form |-> "rect", x |-> x, y |-> y, width |-> w, height |-> h]

\* a frame as sendTextFrame gets it: the command, the payload it carries, the
\* part and the area it names, the callback it comes from and the replay
\* that made it (0 on the live path)
Frame(c, ev, r) ==
    [cmd |-> c, viewId |-> ev.viewId, name |-> ev.name, payload |-> ev.payload,
     part |-> 0, area |-> NoArea, type |-> ev.type, gen |-> ev.gen, replay |-> r]

\* std::stoi throws std::out_of_range in the try block of the five-token
\* case: the part is converted for a document that is not a text document
stoiThrows(rect) ==
    \/ rect.big \cap {"x", "y", "width", "height"} # {}
    \/ _docType # "text" /\ "part" \in rect.big

\* mutant: the catch block leaves the part of the payload
invalidateTilesFrame_KeepsPart(ev, r) ==
    LET rect == ev.rect
        frame == Frame("invalidatetiles:", ev, r)
    IN IF rect.kind = "rect"
       THEN IF stoiThrows(rect)
            THEN [frame EXCEPT !.part = rect.part, !.area = Area(0, 0, INT_MAX, INT_MAX)]
            ELSE [frame EXCEPT !.part = IF _docType # "text" THEN rect.part ELSE 0,
                               !.area = Area(rect.x, rect.y, rect.width, rect.height)]
       ELSE IF rect.kind = "empty"
       THEN [frame EXCEPT !.part = IF _docType # "text" THEN rect.part ELSE 0,
                          !.area = EmptyArea]
       ELSE frame

\* case LOK_CALLBACK_INVALIDATE_TILES (lines 1519-1561)
invalidateTilesFrame(ev, r) ==
    LET rect == ev.rect
        frame == Frame("invalidatetiles:", ev, r)
    IN IF rect.kind = "rect"
       THEN IF stoiThrows(rect)
            THEN [frame EXCEPT !.part = 0, !.area = Area(0, 0, INT_MAX, INT_MAX)]
            ELSE [frame EXCEPT !.part = IF _docType # "text" THEN rect.part ELSE 0,
                               !.area = Area(rect.x, rect.y, rect.width, rect.height)]
       ELSE IF rect.kind = "empty"
       THEN [frame EXCEPT !.part = IF _docType # "text" THEN rect.part ELSE 0,
                          !.area = EmptyArea]
       ELSE frame

\* getLOKitDocument()->getParts(): what the engine reports for the document
getParts == IF _docType = "text" THEN 1 ELSE 2

\* case LOK_CALLBACK_DOCUMENT_SIZE_CHANGED: an invalidation of the full
\* extent for each part, then getStatus(); the payload is not sent
documentSizeChangedFrames(ev, r) ==
    [ i \in 1 .. getParts |->
        [Frame("invalidatetiles:", ev, r) EXCEPT !.payload = FullExtent, !.part = i - 1,
                                                 !.area = Area(0, 0, INT_MAX, INT_MAX)] ]
    \o << [Frame("status:", ev, r) EXCEPT !.payload = FullExtent] >>

\* the frames the switch of loKitCallback sends for one callback
switchFrames(ev, r) ==
    IF ev.type = "DOCUMENT_SIZE_CHANGED" THEN documentSizeChangedFrames(ev, r)
    ELSE IF ev.type = "INVALIDATE_TILES" THEN << invalidateTilesFrame(ev, r) >>
    ELSE IF CommandOf(ev.type) = "" THEN <<>>
    ELSE << Frame(CommandOf(ev.type), ev, r) >>

\* mutant: no callback is skipped
skipsCallback_Never == FALSE

\* loKitCallback skips every callback of a closing or disconnected session
skipsCallback == _isCloseFrame \/ _disconnected

\* payload.find(".uno:Save") != std::string::npos: the command names of
\* Callbacks that contain the text
findsUnoSave(ev) == ev.name \in {".uno:Save", ".uno:SaveAs"}

\* "Pass save notifications through."
isSaveResult(ev) == ev.type = "UNO_COMMAND_RESULT" /\ findsUnoSave(ev)

FrameItem(f, n) ==
    [cmd |-> f.cmd, tile |-> NoTile, viewId |-> f.viewId, name |-> f.name,
     payload |-> f.payload, serial |-> n]

RECURSIVE enqueueAll(_, _, _)
\* the queue after enqueue() of each of frames, the first with serial n + 1
enqueueAll(q, frames, n) ==
    IF frames = <<>> THEN q
    ELSE enqueueAll(enqueueResult(q, FrameItem(Head(frames), n + 1)), Tail(frames), n + 1)

RECURSIVE evictedAll(_, _, _)
\* the items those enqueue() calls erase
evictedAll(q, frames, n) ==
    IF frames = <<>> THEN {}
    ELSE LET next == enqueueResult(q, FrameItem(Head(frames), n + 1))
         IN (Range(q) \ Range(next)) \cup evictedAll(next, Tail(frames), n + 1)

\* enqueue(), once for each of frames
enqueueFrames(frames) ==
    /\ forwarded' = forwarded \o frames
    /\ _queue' = enqueueAll(_queue, frames, nEnq)
    /\ evicted' = evicted \cup evictedAll(_queue, frames, nEnq)
    /\ nEnq' = nEnq + Len(frames)
    /\ UNCHANGED <<_stop, TerminationFlag, delivered, lastOp>>

\* sendTextFrame, once for each of frames: the forwarding sink is enqueue()
sendTextFrame(frames) == enqueueFrames(frames) /\ UNCHANGED lockVars

Pending(pc, ev) == [pc |-> pc, ev |-> ev]

Idle == Pending("idle", NoEvent)

\* loKitCallback up to the branch it takes (lines 1495-1505)
CallbackEnter(e) ==
    LET ev == WithGen(e, Len(engineLog) + 1) IN
    /\ _isDocLoaded
    /\ cb = Idle
    /\ engineLog' = Append(engineLog, ev)
    /\ cb' = IF skipsCallback THEN Idle
             ELSE IF ~_isActive THEN Pending("remember", ev)
             ELSE Pending("switch", ev)
    /\ UNCHANGED <<queueVars, lockVars, _isActive, _isCloseFrame, _disconnected, _isDocLoaded, _docType,
                   _stateRecorder, input, nUserActive, forwarded>>

\* mutant: the inactive branch always returns after remembering
CallbackRemember_NeverForwards ==
    /\ cb.pc = "remember"
    /\ _stateRecorder' = rememberEventsForInactiveUser(_stateRecorder, cb.ev)
    /\ cb' = Idle
    /\ UNCHANGED <<queueVars, lockVars, forwarded>>
    /\ UNCHANGED <<_isActive, _isCloseFrame, _disconnected, _isDocLoaded, _docType, input, engineLog,
                   nUserActive>>

\* the inactive branch: remember, then return unless it is a save result
CallbackRemember ==
    /\ cb.pc = "remember"
    /\ _stateRecorder' = rememberEventsForInactiveUser(_stateRecorder, cb.ev)
    /\ cb' = Idle
    /\ IF isSaveResult(cb.ev)
       THEN sendTextFrame(switchFrames(cb.ev, 0))
       ELSE UNCHANGED <<queueVars, lockVars, forwarded>>
    /\ UNCHANGED <<_isActive, _isCloseFrame, _disconnected, _isDocLoaded, _docType, input, engineLog,
                   nUserActive>>

\* mutant: the live path remembers the callback and sends nothing
CallbackSwitch_Remembers ==
    /\ cb.pc = "switch"
    /\ cb' = Idle
    /\ _stateRecorder' = rememberEventsForInactiveUser(_stateRecorder, cb.ev)
    /\ UNCHANGED <<queueVars, lockVars, forwarded>>
    /\ UNCHANGED <<_isActive, _isCloseFrame, _disconnected, _isDocLoaded, _docType,
                   input, engineLog, nUserActive>>

\* the switch of loKitCallback on the live path
CallbackSwitch ==
    /\ cb.pc = "switch"
    /\ cb' = Idle
    /\ sendTextFrame(switchFrames(cb.ev, 0))
    /\ UNCHANGED <<_isActive, _isCloseFrame, _disconnected, _isDocLoaded, _docType, _stateRecorder,
                   input, engineLog, nUserActive>>

(***************************************************************************)
(* _handleInput                                                            *)
(***************************************************************************)
\* the order in which a replay loop visits a map of the recorder: by key
TypeOrder ==
    << "INVALIDATE_TILES", "INVALIDATE_VISIBLE_CURSOR", "TEXT_SELECTION",
       "TEXT_SELECTION_START", "TEXT_SELECTION_END", "CURSOR_VISIBLE",
       "GRAPHIC_SELECTION", "DOCUMENT_SIZE_CHANGED", "CELL_CURSOR", "CELL_FORMULA",
       "INVALIDATE_VIEW_CURSOR", "TEXT_VIEW_SELECTION", "CELL_VIEW_CURSOR",
       "GRAPHIC_VIEW_SELECTION", "VIEW_CURSOR_VISIBLE", "VIEW_LOCK",
       "INVALIDATE_HEADER", "CELL_ADDRESS" >>

KeyOrder == << "1", "2", ".uno:Bold", ".uno:Italic", NoViewId >>

Rank(order, x) == CHOOSE i \in 1 .. Len(order) : order[i] = x

Before(a, b) ==
    LET ka == IF a.type = "STATE_CHANGED" THEN a.name ELSE a.viewId
        kb == IF b.type = "STATE_CHANGED" THEN b.name ELSE b.viewId
    IN \/ Rank(KeyOrder, ka) < Rank(KeyOrder, kb)
       \/ ka = kb /\ Rank(TypeOrder, a.type) < Rank(TypeOrder, b.type)

RECURSIVE InMapOrder(_)
InMapOrder(S) ==
    IF S = {} THEN <<>>
    ELSE LET first == CHOOSE a \in S : \A b \in S \ {a} : Before(a, b)
         IN << first >> \o InMapOrder(S \ {first})

\* mutant: the replay sends the command and the recorded payload itself
replayFrames_CommandAndPayload(events, r) ==
    IF skipsCallback THEN <<>>
    ELSE [ i \in 1 .. Len(events) |-> Frame(CommandOf(events[i].type), events[i], r) ]

RECURSIVE replayFrames_OnClosing(_, _)
\* mutant: the callbacks of the replay are not skipped on a closing session
replayFrames_OnClosing(events, r) ==
    IF events = <<>> THEN <<>>
    ELSE switchFrames(Head(events), r) \o replayFrames_OnClosing(Tail(events), r)

RECURSIVE replayFrames(_, _)
\* loKitCallback(event._type, event._payload) for each event of a loop
replayFrames(events, r) ==
    IF events = <<>> \/ skipsCallback THEN <<>>
    ELSE switchFrames(Head(events), r) \o replayFrames(Tail(events), r)

\* "load" (lines 175-190): loadDocument sets _docType and sends the status
load(docType) ==
    /\ input = "idle"
    /\ ~_isDocLoaded
    /\ _isDocLoaded' = TRUE
    /\ _docType' = docType
    /\ sendTextFrame(<< Frame("status:", NoEvent, 0), Frame("editor:", NoEvent, 0) >>)
    /\ UNCHANGED <<_isActive, _isCloseFrame, _disconnected, _stateRecorder, cb, input,
                   engineLog, nUserActive>>

\* "userinactive" (lines 331-334), taken once the document is loaded
UserInactive ==
    /\ input = "idle"
    /\ _isDocLoaded
    /\ _isActive' = FALSE
    /\ UNCHANGED <<queueVars, lockVars, _isCloseFrame, _disconnected, _isDocLoaded, _docType, _stateRecorder,
                   cb, input, engineLog, nUserActive, forwarded>>

\* "useractive" without a document (lines 95, 191-195): no replay, an error frame
UserActiveNoDocument ==
    /\ input = "idle"
    /\ ~_isDocLoaded
    /\ nUserActive < MaxUserActive
    /\ nUserActive' = nUserActive + 1
    /\ sendTextFrame(<< Frame("error:", NoEvent, 0) >>)
    /\ UNCHANGED <<_isActive, _isCloseFrame, _disconnected, _isDocLoaded, _docType,
                   _stateRecorder, cb, input, engineLog>>

\* "useractive": setIsActive(true) (line 98)
UserActive ==
    /\ input = "idle"
    /\ _isDocLoaded
    /\ nUserActive < MaxUserActive
    /\ nUserActive' = nUserActive + 1
    /\ _isActive' = TRUE
    /\ input' = "replay"
    /\ UNCHANGED <<queueVars, lockVars, _isCloseFrame, _disconnected, _isDocLoaded, _docType, _stateRecorder,
                   cb, engineLog, forwarded>>

\* lines 116-120: "curpart: part=" and "setpart: part=" with the current part
PartFrames(curPart) ==
    IF _docType # "text"
    THEN << [Frame("curpart:", NoEvent, nUserActive) EXCEPT !.part = curPart],
            [Frame("setpart:", NoEvent, nUserActive) EXCEPT !.part = curPart] >>
    ELSE <<>>

\* mutant: the made-up invalidation names the first part
InvalidateCalls_FirstPart(rec, curPart) ==
    IF rec._invalidate
    THEN << WithGen([Event("INVALIDATE_TILES", NoViewId, NoName, FullExtent)
                        EXCEPT !.rect = Rect(0, 0, INT_MAX, INT_MAX, 0, {})], 0) >>
    ELSE <<>>

\* lines 122-129: the invalidation replay makes up, with the payload
\* "0, 0, INT_MAX, INT_MAX, curPart"
InvalidateCalls(rec, curPart) ==
    IF rec._invalidate
    THEN << WithGen([Event("INVALIDATE_TILES", NoViewId, NoName, FullExtent)
                        EXCEPT !.rect = Rect(0, 0, INT_MAX, INT_MAX, curPart, {})], 0) >>
    ELSE <<>>

\* mutant: the sequence loop runs before the state loop
ReplayCalls_SequenceBeforeStates(rec, curPart) ==
    InvalidateCalls(rec, curPart)
    \o InMapOrder(rec._recordedViewEvents)
    \o InMapOrder(rec._recordedEvents)
    \o rec._recordedEventsVector
    \o InMapOrder(rec._recordedStates)

\* mutant: the invalidation is made up after the loops
ReplayCalls_InvalidateLast(rec, curPart) ==
    InMapOrder(rec._recordedViewEvents)
    \o InMapOrder(rec._recordedEvents)
    \o InMapOrder(rec._recordedStates)
    \o rec._recordedEventsVector
    \o InvalidateCalls(rec, curPart)

\* mutant: the loop over the events runs before the loop over the view events
ReplayCalls_TypeBeforeView(rec, curPart) ==
    InvalidateCalls(rec, curPart)
    \o InMapOrder(rec._recordedEvents)
    \o InMapOrder(rec._recordedViewEvents)
    \o InMapOrder(rec._recordedStates)
    \o rec._recordedEventsVector

\* the loKitCallback calls of the replay loops, in the order of the code:
\* view events (131-140), events (142-147), states (149-153), sequence (155-159)
ReplayCalls(rec, curPart) ==
    InvalidateCalls(rec, curPart)
    \o InMapOrder(rec._recordedViewEvents)
    \o InMapOrder(rec._recordedEvents)
    \o InMapOrder(rec._recordedStates)
    \o rec._recordedEventsVector

\* lines 102-159: under Mutex, the part frames and the replay loops.  A step
\* of the engine thread falls before or after the loops: what it can do
\* between two of them it can do there as well.
ReplayAt(curPart) ==
    /\ input = "replay"
    /\ curPart \in 0 .. (getParts - 1)
    /\ _docType = "text" => curPart = 0
    /\ input' = "clear"
    /\ sendTextFrame(PartFrames(curPart)
                     \o replayFrames(ReplayCalls(_stateRecorder, curPart), nUserActive))
    /\ UNCHANGED <<_isActive, _isCloseFrame, _disconnected, _isDocLoaded, _docType, _stateRecorder,
                   cb, engineLog, nUserActive>>

\* the replay of a document whose current part is the first
Replay == ReplayAt(0)

\* mutant: the recorder is not cleared
ReplayClear_KeepsRecorder ==
    /\ input = "clear"
    /\ input' = "idle"
    /\ _isActive' = TRUE
    /\ UNCHANGED <<queueVars, lockVars, _isCloseFrame, _disconnected, _isDocLoaded, _docType, cb, engineLog,
                   nUserActive, forwarded, _stateRecorder>>

\* line 161, and the "useractive" branch of the command chain (lines 327-330)
ReplayClear ==
    /\ input = "clear"
    /\ input' = "idle"
    /\ _stateRecorder' = clear(_stateRecorder)
    /\ _isActive' = TRUE
    /\ UNCHANGED <<queueVars, lockVars, _isCloseFrame, _disconnected, _isDocLoaded, _docType, cb, engineLog,
                   nUserActive, forwarded>>

\* the peer sends a close frame (a session already disconnected gets none)
CloseFrame ==
    /\ ~skipsCallback
    /\ _isCloseFrame' = TRUE
    /\ UNCHANGED <<queueVars, lockVars, _isActive, _disconnected, _isDocLoaded, _docType, _stateRecorder, cb,
                   input, engineLog, nUserActive, forwarded>>

\* the connection is lost (a closing session is skipped already)
Disconnect ==
    /\ ~skipsCallback
    /\ _disconnected' = TRUE
    /\ UNCHANGED <<queueVars, lockVars, _isActive, _isCloseFrame, _isDocLoaded, _docType, _stateRecorder, cb,
                   input, engineLog, nUserActive, forwarded>>

(***************************************************************************)
(* The locks of loKitCallback and _handleInput.  A thread that has to take *)
(* a lock another thread holds cannot take its step.                       *)
(***************************************************************************)
\* rememberEventsForInactiveUser records under getLock() (lines 1413-1459)
CallbackRememberLocked ==
    /\ locks["getLock"] = NoThread
    /\ CallbackRemember

\* a case of the switch that only sends: enqueue() takes _mutex
CallbackSwitchLocked ==
    /\ cb.pc = "switch"
    /\ cb.ev.type # "DOCUMENT_SIZE_CHANGED"
    /\ locks["_mutex"] = NoThread
    /\ CallbackSwitch

\* thread t is in case LOK_CALLBACK_DOCUMENT_SIZE_CHANGED: the engine thread
\* on the live path, the input thread in the replay loop over the events
InSizeChanged(t) ==
    IF t = "engine"
    THEN cb.pc = "switch" /\ cb.ev.type = "DOCUMENT_SIZE_CHANGED"
    ELSE input = "replay:size"

\* the recorder holds a size change for the replay to make a callback of
SizeChangedRecorded ==
    \E e \in _stateRecorder._recordedEvents : e.type = "DOCUMENT_SIZE_CHANGED"

SizeChangedEvent(t) ==
    IF t = "engine" THEN cb.ev
    ELSE CHOOSE e \in _stateRecorder._recordedEvents : e.type = "DOCUMENT_SIZE_CHANGED"

SizeChangedFrames(t) ==
    documentSizeChangedFrames(SizeChangedEvent(t), IF t = "engine" THEN 0 ELSE nUserActive)

\* what the steps inside the case leave alone
SizeChangedFrame ==
    UNCHANGED <<_isActive, _isCloseFrame, _disconnected, _isDocLoaded, _docType,
                _stateRecorder, engineLog, nUserActive, appended>>

\* line 1606: the document mutex is taken
sizeChangedLock(t) ==
    /\ InSizeChanged(t)
    /\ thread[t].pc = "idle"
    /\ locks["documentMutex"] = NoThread
    /\ locks' = Lock("documentMutex", t)
    /\ thread' = At(t, "size:send", NoItem)
    /\ UNCHANGED <<queueVars, sessionVars, appended>>

\* lines 1607-1618: an invalidatetiles: for each part, then lock.unlock()
sizeChangedSend(t) ==
    LET frames == SizeChangedFrames(t) IN
    /\ thread[t].pc = "size:send"
    /\ locks["_mutex"] = NoThread
    /\ enqueueFrames(SubSeq(frames, 1, Len(frames) - 1))
    /\ locks' = Unlock("documentMutex", t)
    /\ thread' = At(t, "status:lock", NoItem)
    /\ SizeChangedFrame
    /\ UNCHANGED <<cb, input>>

\* getStatus(), line 496: the document mutex is taken again
getStatusLock(t) ==
    /\ thread[t].pc = "status:lock"
    /\ locks["documentMutex"] = NoThread
    /\ locks' = Lock("documentMutex", t)
    /\ thread' = At(t, "status:unlock", NoItem)
    /\ UNCHANGED <<queueVars, sessionVars, appended>>

\* lines 498-501: the status is read and the lock leaves its scope
getStatusUnlock(t) ==
    /\ thread[t].pc = "status:unlock"
    /\ locks' = Unlock("documentMutex", t)
    /\ thread' = At(t, "status:send", NoItem)
    /\ UNCHANGED <<queueVars, sessionVars, appended>>

\* line 509: sendTextFrame("status: " + status), and the callback returns:
\* to the engine, or to the replay loops, which have run by then
getStatusSend(t) ==
    LET frames == SizeChangedFrames(t) IN
    /\ thread[t].pc = "status:send"
    /\ locks["_mutex"] = NoThread
    /\ enqueueFrames(<< frames[Len(frames)] >>)
    /\ thread' = At(t, "idle", NoItem)
    /\ IF t = "engine"
       THEN cb' = Idle /\ UNCHANGED input
       ELSE input' = "clear" /\ UNCHANGED cb
    /\ SizeChangedFrame
    /\ UNCHANGED locks

\* line 102: the input thread takes the recursive ChildSession::Mutex
ReplayLockMutex ==
    /\ input = "replay"
    /\ locks["Mutex"] \in {NoThread, "input"}
    /\ locks' = Lock("Mutex", "input")
    /\ input' = "replay:document"
    /\ UNCHANGED <<queueVars, _isActive, _isCloseFrame, _disconnected, _isDocLoaded, _docType,
                   _stateRecorder, cb, engineLog, nUserActive, forwarded, thread, appended>>

\* line 103: and the document mutex
ReplayLockDocument ==
    /\ input = "replay:document"
    /\ locks["documentMutex"] = NoThread
    /\ locks' = Lock("documentMutex", "input")
    /\ input' = "replay:view"
    /\ UNCHANGED <<queueVars, _isActive, _isCloseFrame, _disconnected, _isDocLoaded, _docType,
                   _stateRecorder, cb, engineLog, nUserActive, forwarded, thread, appended>>

\* mutant: lockLokDoc is not unlocked before the loops
ReplayUnlockDocument_KeepsLock ==
    /\ input = "replay:view"
    /\ input' = "replay:loops"
    /\ UNCHANGED <<queueVars, _isActive, _isCloseFrame, _disconnected, _isDocLoaded, _docType,
                   _stateRecorder, cb, engineLog, nUserActive, forwarded, lockVars>>

\* lines 105-113: setView, getPart, notifyViewInfo and lockLokDoc.unlock()
ReplayUnlockDocument ==
    /\ input = "replay:view"
    /\ locks' = Unlock("documentMutex", "input")
    /\ input' = "replay:loops"
    /\ UNCHANGED <<queueVars, _isActive, _isCloseFrame, _disconnected, _isDocLoaded, _docType,
                   _stateRecorder, cb, engineLog, nUserActive, forwarded, thread, appended>>

\* lines 116-159: the part frames and the callbacks of the loops that only
\* send; the callback for a recorded size change takes the document mutex
\* and follows
ReplayLoopsSend ==
    LET calls == SelectSeq(ReplayCalls(_stateRecorder, 0),
                           LAMBDA e : e.type # "DOCUMENT_SIZE_CHANGED")
    IN /\ input = "replay:loops"
       /\ locks["_mutex"] = NoThread
       /\ enqueueFrames(PartFrames(0) \o replayFrames(calls, nUserActive))
       /\ input' = IF SizeChangedRecorded /\ ~skipsCallback THEN "replay:size" ELSE "clear"
       /\ UNCHANGED <<_isActive, _isCloseFrame, _disconnected, _isDocLoaded, _docType,
                      _stateRecorder, cb, engineLog, nUserActive, lockVars>>

\* line 161 and the end of the scope of the lock on Mutex
ReplayClearUnlock ==
    /\ input = "clear"
    /\ input' = "idle"
    /\ _stateRecorder' = clear(_stateRecorder)
    /\ _isActive' = TRUE
    /\ locks' = Unlock("Mutex", "input")
    /\ UNCHANGED <<queueVars, _isCloseFrame, _disconnected, _isDocLoaded, _docType, cb, engineLog,
                   nUserActive, forwarded, thread, appended>>

QueueInit ==
    /\ _queue = <<>>
    /\ _stop = FALSE
    /\ TerminationFlag = FALSE
    /\ nEnq = 0
    /\ delivered = <<>>
    /\ evicted = {}
    /\ lastOp = Op("ctor", NoItem, 0, FALSE, FALSE)

SessionInit ==
    /\ _isActive = TRUE
    /\ _isCloseFrame = FALSE
    /\ _disconnected = FALSE
    /\ _isDocLoaded = FALSE
    /\ _docType = ""
    /\ _stateRecorder = EmptyRecorder
    /\ cb = Idle
    /\ input = "idle"
    /\ engineLog = <<>>
    /\ nUserActive = 0
    /\ forwarded = <<>>

\* no lock is held, no thread is inside a call
LockInit ==
    /\ locks = [l \in Locks |-> NoThread]
    /\ thread = [t \in Threads |-> [pc |-> "idle", item |-> NoItem]]
    /\ appended = {}

Init == QueueInit /\ SessionInit /\ LockInit

\* the queue by itself, driven through its public calls
Next ==
    \/ \E m \in Items : enqueue(m)
    \/ dequeue
    \/ sizeCall
    \/ stop
    \/ Terminate

Spec == Init /\ [][Next]_vars

\* the queue between a producer, a consumer and a thread that asks for the
\* size, each call statement by statement; stop() stores into the atomic
\* _stop without the lock
MutexItems ==
    { Msg("invalidatecursor:", NoTile, NoViewId, 1),
      Msg("statechanged:", NoTile, NoViewId, 1),
      Msg("invalidateviewcursor:", NoTile, NoViewId, 1) }

MutexNext ==
    \/ \E m \in MutexItems : enqueueLock("engine", m)
    \/ enqueueDeduplicate("engine")
    \/ enqueuePush("engine")
    \/ enqueueReturn("engine")
    \/ dequeueLock("sender")
    \/ dequeueFront("sender")
    \/ dequeuePop("sender")
    \/ sizeLock("input")
    \/ sizeReturn("input")
    \/ stop

MutexSpec == Init /\ [][MutexNext]_vars

\* the consumer polls for ever and every call that has begun goes on
MutexFairSpec ==
    /\ MutexSpec
    /\ WF_vars(enqueueDeduplicate("engine") \/ enqueuePush("engine") \/ enqueueReturn("engine"))
    /\ SF_vars(dequeueLock("sender"))
    /\ WF_vars(dequeueFront("sender") \/ dequeuePop("sender"))
    /\ WF_vars(sizeReturn("input"))

\* the session: the engine thread and the input thread, forwarding into the queue
SessionNext ==
    \/ \E e \in Callbacks : Len(engineLog) < MaxCallbacks /\ CallbackEnter(e)
    \/ CallbackRemember
    \/ CallbackSwitch
    \/ \E t \in DocTypes : load(t)
    \/ UserInactive
    \/ UserActiveNoDocument
    \/ UserActive
    \/ Replay
    \/ ReplayClear
    \/ CloseFrame
    \/ Disconnect

SessionSpec == Init /\ [][SessionNext]_vars

\* the replay scenario: the user of a text document goes inactive, the
\* engine delivers a tile invalidation, a cursor, a view cursor, comment#1,
\* comment#2 and the state of Bold, each once and in any order, and the user
\* comes back at any moment
ScenarioCallbacks ==
    { TileEvent(Rect(0, 0, 1, 1, 0, {})),
      Event("INVALIDATE_VISIBLE_CURSOR", NoViewId, NoName, 1),
      Event("INVALIDATE_VIEW_CURSOR", "1", NoName, 1),
      Event("COMMENT", NoViewId, NoName, 1),
      Event("COMMENT", NoViewId, NoName, 2),
      Event("STATE_CHANGED", NoViewId, ".uno:Bold", 1) }

Delivered(e) == \E i \in 1 .. Len(engineLog) : engineLog[i] = WithGen(e, i)

ScenarioNext ==
    \/ load("text")
    \/ \E e \in ScenarioCallbacks : ~Delivered(e) /\ CallbackEnter(e)
    \/ CallbackRemember
    \/ CallbackSwitch
    \/ engineLog = <<>> /\ UserInactive
    \/ UserActive
    \/ Replay
    \/ ReplayClear

ScenarioSpec == Init /\ [][ScenarioNext]_vars

\* the recorder: a loaded session that goes inactive and active again while
\* the engine delivers the callbacks of the latest-wins categories
RecorderCallbacks ==
    { e \in Callbacks : e.type \in PerTypeEvents \cup PerViewEvents \cup {"STATE_CHANGED"} }

RecorderNext ==
    \/ \E e \in RecorderCallbacks : Len(engineLog) < MaxCallbacks /\ CallbackEnter(e)
    \/ CallbackRemember
    \/ CallbackSwitch
    \/ \E t \in DocTypes : load(t)
    \/ UserInactive
    \/ UserActive
    \/ Replay
    \/ ReplayClear

RecorderSpec == Init /\ [][RecorderNext]_vars

\* the sequence: a loaded session that goes inactive and active again while
\* the engine delivers comments, redline changes and view cursors with and
\* without a viewId
SequenceCallbacks ==
    { Event(t, NoViewId, NoName, 1) : t \in SequenceEvents }
    \cup { Event("COMMENT", NoViewId, NoName, 2) }
    \cup { Event("INVALIDATE_VIEW_CURSOR", v, NoName, 1) : v \in {"1", NoViewId} }

SequenceNext ==
    \/ \E e \in SequenceCallbacks : Len(engineLog) < MaxCallbacks /\ CallbackEnter(e)
    \/ CallbackRemember
    \/ CallbackSwitch
    \/ \E t \in DocTypes : load(t)
    \/ UserInactive
    \/ UserActive
    \/ Replay
    \/ ReplayClear

SequenceSpec == Init /\ [][SequenceNext]_vars

\* the tiles: a loaded session, active or not, gets tile invalidations with
\* a rectangle in range, with a field out of range, with EMPTY and with a
\* payload of another form; the replay finds the document at any of its parts
TileCallbacks ==
    { TileEvent(Rect(1, 1, 1, 1, 1, {})) }
    \cup { TileEvent(Rect(1, 1, 1, 1, 1, {f})) : f \in {"x", "part"} }
    \cup { TileEvent(EmptyRect(1)), TileEvent(NoRect) }

TilesNext ==
    \/ \E e \in TileCallbacks : Len(engineLog) < MaxCallbacks /\ CallbackEnter(e)
    \/ CallbackRemember
    \/ CallbackSwitch
    \/ \E t \in DocTypes : load(t)
    \/ UserInactive
    \/ UserActive
    \/ \E curPart \in 0 .. 1 : ReplayAt(curPart)
    \/ ReplayClear

TilesSpec == Init /\ [][TilesNext]_vars

\* the states: a loaded session that goes inactive and active again while
\* the engine delivers the state of a command as name=value, a state whose
\* payload has no '=' and a cursor
StateCallbacks ==
    { Event("STATE_CHANGED", NoViewId, n, 1) : n \in {".uno:Bold", NoName} }
    \cup { Event("INVALIDATE_VISIBLE_CURSOR", NoViewId, NoName, 1) }

StateNext ==
    \/ \E e \in StateCallbacks : Len(engineLog) < MaxCallbacks /\ CallbackEnter(e)
    \/ CallbackRemember
    \/ CallbackSwitch
    \/ \E t \in DocTypes : load(t)
    \/ UserInactive
    \/ UserActive
    \/ Replay
    \/ ReplayClear

StateSpec == Init /\ [][StateNext]_vars

\* the save: a loaded session that goes inactive and active again while the
\* engine delivers the result of the save command, the result of another
\* command and a cursor
SaveCallbacks ==
    { Event("UNO_COMMAND_RESULT", NoViewId, n, 1) : n \in {".uno:Save", ".uno:Bold"} }
    \cup { Event("INVALIDATE_VISIBLE_CURSOR", NoViewId, NoName, 1) }

SaveNext ==
    \/ \E e \in SaveCallbacks : Len(engineLog) < MaxCallbacks /\ CallbackEnter(e)
    \/ CallbackRemember
    \/ CallbackSwitch
    \/ \E t \in DocTypes : load(t)
    \/ UserInactive
    \/ UserActive
    \/ Replay
    \/ ReplayClear

SaveSpec == Init /\ [][SaveNext]_vars

\* the close: a loaded session that goes inactive and active again while the
\* engine delivers a tile invalidation and a cursor, and that gets a close
\* frame or loses its connection at any moment
ClosingCallbacks ==
    { TileEvent(Rect(0, 0, 1, 1, 0, {})),
      Event("INVALIDATE_VISIBLE_CURSOR", NoViewId, NoName, 1) }

ClosingNext ==
    \/ \E e \in ClosingCallbacks : Len(engineLog) < MaxCallbacks /\ CallbackEnter(e)
    \/ CallbackRemember
    \/ CallbackSwitch
    \/ \E t \in DocTypes : load(t)
    \/ UserInactive
    \/ UserActive
    \/ Replay
    \/ ReplayClear
    \/ CloseFrame
    \/ Disconnect

ClosingSpec == Init /\ [][ClosingNext]_vars

\* the two paths: a loaded session, active or not, gets a size change, a
\* tile invalidation, a view cursor and the state of a command, and goes
\* inactive and active again
ForwardCallbacks ==
    { Event("DOCUMENT_SIZE_CHANGED", NoViewId, NoName, 1),
      TileEvent(Rect(0, 0, 1, 1, 0, {})),
      Event("INVALIDATE_VIEW_CURSOR", "1", NoName, 1),
      Event("STATE_CHANGED", NoViewId, ".uno:Bold", 1) }

ForwardNext ==
    \/ \E e \in ForwardCallbacks : Len(engineLog) < MaxCallbacks /\ CallbackEnter(e)
    \/ CallbackRemember
    \/ CallbackSwitch
    \/ \E t \in DocTypes : load(t)
    \/ UserInactive
    \/ UserActive
    \/ Replay
    \/ ReplayClear

ForwardSpec == Init /\ [][ForwardNext]_vars

\* the locks: the engine delivers cursors and size changes to the session of
\* a text document that goes inactive and active again, every thread takes
\* its locks one at a time, and the sender polls the queue
LockCallbacks ==
    { Event("INVALIDATE_VISIBLE_CURSOR", NoViewId, NoName, 1),
      Event("DOCUMENT_SIZE_CHANGED", NoViewId, NoName, 1) }

EngineStep ==
    \/ CallbackRememberLocked
    \/ CallbackSwitchLocked
    \/ sizeChangedLock("engine")
    \/ sizeChangedSend("engine")
    \/ getStatusLock("engine")
    \/ getStatusUnlock("engine")
    \/ getStatusSend("engine")

InputStep ==
    \/ ReplayLockMutex
    \/ ReplayLockDocument
    \/ ReplayUnlockDocument
    \/ ReplayLoopsSend
    \/ sizeChangedLock("input")
    \/ sizeChangedSend("input")
    \/ getStatusLock("input")
    \/ getStatusUnlock("input")
    \/ getStatusSend("input")
    \/ ReplayClearUnlock

SenderStep ==
    \/ dequeueFront("sender")
    \/ dequeuePop("sender")

LockNext ==
    \/ \E e \in LockCallbacks : Len(engineLog) < MaxCallbacks /\ CallbackEnter(e)
    \/ EngineStep
    \/ load("text")
    \/ UserInactive
    \/ nUserActive < MaxLockReplays /\ UserActive
    \/ InputStep
    \/ dequeueLock("sender")
    \/ SenderStep

LockSpec == Init /\ [][LockNext]_vars

\* a thread that can take its next step again and again takes it: a lock
\* that is free again and again is given to the thread that asks for it
LockFairSpec ==
    /\ LockSpec
    /\ SF_vars(EngineStep)
    /\ SF_vars(InputStep)
    /\ SF_vars(SenderStep)


(***************************************************************************)
(* Properties of the queue, checked under Spec.                            *)
(***************************************************************************)
\* two messages with the same dedup key: the same tile, the same one of the
\* two single-message commands, or view cursors of the same view
SameDedupKey(a, b) ==
    \/ /\ a.cmd = "tile:" /\ b.cmd = "tile:"
       /\ a.tile.part = b.tile.part /\ a.tile.zoom = b.tile.zoom
       /\ a.tile.x = b.tile.x /\ a.tile.y = b.tile.y
    \/ a.cmd = b.cmd /\ a.cmd \in {"statusindicatorsetvalue:", "invalidatecursor:"}
    \/ a.cmd = "invalidateviewcursor:" /\ b.cmd = a.cmd /\ a.viewId = b.viewId

\* the last call was an enqueue() that was neither dropped nor left by an exception
Enqueued == lastOp.op = "enqueue" /\ ~stopping /\ ~lastOp.threw

\* C1: after any sequence of enqueue, dequeue and stop calls the queue holds
\* at most one message per dedup key (tile identity, statusindicatorsetvalue,
\* invalidatecursor, invalidateviewcursor per viewId).
C1_OnePerDedupKey ==
    \A i, j \in 1 .. Len(_queue) : i # j => ~SameDedupKey(_queue[i], _queue[j])

\* an enqueue has just erased a queued message of its key while another
\* message stayed queued
C1_Witness ==
    /\ Enqueued
    /\ Len(_queue) >= 2
    /\ \E e \in evicted : SameDedupKey(e, lastOp.item) /\ e.serial < lastOp.item.serial

\* C4: once stop() has been called, enqueue() of any item drops it without an
\* error, leaves the queue as it is, does not increase size() and returns the
\* current length.
C4_EnqueueAfterStop ==
    [][ (_stop /\ lastOp'.op = "enqueue" /\ nEnq' = nEnq + 1) =>
            /\ _queue' = _queue
            /\ ~lastOp'.threw
            /\ lastOp'.ret = Len(_queue) ]_vars

\* an item was handed to a stopped queue that still holds one
C4_Witness == _stop /\ lastOp.op = "enqueue" /\ Len(_queue) > 0

\* C5: dequeue() returns the head with ok = true and removes just it when the
\* queue is non-empty and not stopping; otherwise it returns ok = false and
\* leaves the queue as it is, and nothing is delivered once the queue stops.
C5_Dequeue ==
    [][ /\ (lastOp'.op = "dequeue" /\ lastOp' # lastOp) =>
              IF _queue # <<>> /\ ~stopping
              THEN /\ lastOp'.ok
                   /\ lastOp'.item = Head(_queue)
                   /\ _queue' = Tail(_queue)
              ELSE /\ ~lastOp'.ok
                   /\ _queue' = _queue
        /\ stopping => (delivered' = delivered /\ Len(_queue') >= Len(_queue)) ]_vars

\* dequeue() has just failed on a stopped queue that holds an item
C5_Witness == lastOp.op = "dequeue" /\ ~lastOp.ok /\ _stop /\ Len(_queue) > 0

\* C6: messages are delivered in the order of their enqueue() calls; a
\* superseding message has the place of its own enqueue(), not the place of
\* the message it evicted.
C6_Fifo ==
    /\ \A i, j \in 1 .. Len(delivered) :
          i < j => delivered[i].serial < delivered[j].serial
    /\ \A i, j \in 1 .. Len(_queue) : i < j => _queue[i].serial < _queue[j].serial
    /\ \A i \in 1 .. Len(delivered) : \A j \in 1 .. Len(_queue) :
          delivered[i].serial < _queue[j].serial

\* two messages were delivered after the first one enqueued had been evicted
C6_Witness ==
    /\ Len(delivered) = 2
    /\ \E e \in evicted : e.serial < delivered[1].serial

\* C7: on a queue that is not stopping, enqueue() of a tile message whose
\* (part, zoom, coordinates) equal those of a queued tile message leaves the
\* length unchanged, removes the older one and keeps the new one; a queued
\* tile with another key stays.
C7_TileDedup ==
    [][ (lastOp'.op = "enqueue" /\ nEnq' = nEnq + 1 /\ ~stopping
         /\ lastOp'.item.cmd = "tile:") =>
            LET new == lastOp'.item
                old == { m \in Range(_queue) : SameDedupKey(m, new) }
            IN /\ old # {} => (Len(_queue') = Len(_queue) /\ lastOp'.ret = Len(_queue))
               /\ old \cap Range(_queue') = {}
               /\ { m \in Range(_queue') : SameDedupKey(m, new) } = { new }
               /\ \A m \in Range(_queue) \ old : m \in Range(_queue') ]_vars

\* a tile has just replaced the queued tile of its key next to a tile of another key
C7_Witness ==
    /\ Enqueued
    /\ lastOp.item.cmd = "tile:"
    /\ lastOp.ret = lastOp.pre
    /\ \E e \in evicted : SameDedupKey(e, lastOp.item)
    /\ \E m \in Range(_queue) : m.cmd = "tile:" /\ ~SameDedupKey(m, lastOp.item)

\* C8: when an enqueue() evicts a queued message, the new message goes to the
\* tail and the other messages keep their order: A(tile,k1), B(other),
\* A'(tile,k1) is dequeued as B, A'.
C8_EvictThenTail ==
    [][ (lastOp'.op = "enqueue" /\ nEnq' = nEnq + 1 /\ evicted' # evicted) =>
            \E i \in 1 .. Len(_queue) :
                /\ evicted' = evicted \cup { _queue[i] }
                /\ _queue' = SubSeq(_queue, 1, i - 1) \o SubSeq(_queue, i + 1, Len(_queue))
                             \o << lastOp'.item >> ]_vars

\* A(tile,k1), B(other), A'(tile,k1) were enqueued and B, A' dequeued
C8_Witness ==
    /\ Len(delivered) = 2
    /\ delivered[1].cmd = "statechanged:" /\ delivered[1].serial = 2
    /\ delivered[2].cmd = "tile:" /\ delivered[2].serial = 3
    /\ \E e \in evicted : e.serial = 1 /\ SameDedupKey(e, delivered[2])

\* C9: enqueue() of an invalidateviewcursor: message evicts a queued
\* invalidateviewcursor: message if and only if its viewId is the same;
\* viewId=1 then viewId=2 leaves both queued.
C9_ViewCursorDedup ==
    [][ (lastOp'.op = "enqueue" /\ nEnq' = nEnq + 1
         /\ lastOp'.item.cmd = "invalidateviewcursor:") =>
            LET new == lastOp'.item IN
            /\ \A m \in Range(_queue) \ Range(_queue') :
                  m.cmd = "invalidateviewcursor:" /\ m.viewId = new.viewId
            /\ (~stopping /\ ~lastOp'.threw) =>
                  \A m \in Range(_queue) :
                     (m.cmd = "invalidateviewcursor:" /\ m.viewId = new.viewId)
                        => m \notin Range(_queue') ]_vars

\* viewId=1 then viewId=2 were enqueued and both are queued
C9_Witness ==
    /\ Enqueued
    /\ Len(_queue) = 2 /\ lastOp.ret = 2
    /\ _queue[1].cmd = "invalidateviewcursor:" /\ _queue[1].viewId = "1"
    /\ _queue[2].cmd = "invalidateviewcursor:" /\ _queue[2].viewId = "2"

\* C10: on a queue that is not stopping, enqueue() of a
\* statusindicatorsetvalue: or invalidatecursor: message removes the queued
\* message of the same command, if any, and no message of another command,
\* so that one message of the command is pending.
C10_SingleCommandDedup ==
    [][ (lastOp'.op = "enqueue" /\ nEnq' = nEnq + 1 /\ ~stopping
         /\ lastOp'.item.cmd \in {"statusindicatorsetvalue:", "invalidatecursor:"}) =>
            LET new == lastOp'.item IN
            /\ \A m \in Range(_queue) : m.cmd = new.cmd <=> m \notin Range(_queue')
            /\ { m \in Range(_queue') : m.cmd = new.cmd } = { new } ]_vars

\* an invalidatecursor: has just replaced the queued one next to a
\* statusindicatorsetvalue:
C10_Witness ==
    /\ Enqueued
    /\ lastOp.item.cmd = "invalidatecursor:"
    /\ \E e \in evicted : e.cmd = "invalidatecursor:"
    /\ \E m \in Range(_queue) : m.cmd = "statusindicatorsetvalue:"

\* C11: on a queue that is not stopping, enqueue() of a message whose command
\* is none of tile:, statusindicatorsetvalue:, invalidatecursor: and
\* invalidateviewcursor: removes nothing: the queued messages stay in place
\* and in order and the queue grows by one, also when an identical message
\* is queued.
C11_OtherCommandsAppend ==
    [][ (lastOp'.op = "enqueue" /\ nEnq' = nEnq + 1 /\ ~stopping
         /\ lastOp'.item.cmd \notin {"tile:", "statusindicatorsetvalue:",
                                     "invalidatecursor:", "invalidateviewcursor:"}) =>
            /\ _queue' = Append(_queue, lastOp'.item)
            /\ evicted' = evicted
            /\ ~lastOp'.threw
            /\ lastOp'.ret = Len(_queue) + 1 ]_vars

\* a statechanged: has just joined two queued messages, one of them identical to it
C11_Witness ==
    /\ Enqueued
    /\ lastOp.item.cmd = "statechanged:"
    /\ Len(_queue) = 3 /\ lastOp.ret = 3
    /\ \E i \in 1 .. 2 :
          _queue[i].cmd = "statechanged:" /\ _queue[i].payload = lastOp.item.payload

\* C17: stop() is one-way and idempotent: a queue that is stopping stays
\* stopping through every later enqueue, dequeue, size and stop call, and a
\* second stop() changes nothing.
C17_StopOneWay ==
    [][ /\ _stop => _stop'
        /\ stopping => stopping'
        /\ (lastOp'.op = "stop" /\ lastOp'.stopped) =>
              UNCHANGED <<_queue, _stop, TerminationFlag, nEnq, delivered, evicted>> ]_vars

\* stop() has just been called on a stopped queue that holds an item and
\* has delivered one
C17_Witness ==
    /\ lastOp.op = "stop" /\ lastOp.stopped /\ _stop
    /\ Len(_queue) > 0 /\ Len(delivered) > 0

\* C29: an enqueue() that returns gives the length the queue has right after
\* the call, which is what size() gives then: on a queue that is not
\* stopping the length before the call when dedup evicted a message, and
\* that length plus one otherwise; dedup evicts one message at most.
C29_EnqueueReturnsSize ==
    [][ /\ (lastOp'.op = "enqueue" /\ nEnq' = nEnq + 1 /\ ~lastOp'.threw) =>
              /\ lastOp'.ret = Len(_queue')
              /\ ~stopping =>
                    /\ Cardinality(evicted' \ evicted) <= 1
                    /\ lastOp'.ret = IF evicted' # evicted THEN Len(_queue)
                                      ELSE Len(_queue) + 1
        /\ (lastOp'.op = "size" /\ lastOp.op = "enqueue" /\ ~lastOp.threw) =>
              lastOp'.ret = lastOp.ret ]_vars

\* size() has just been called after an enqueue() that evicted a message
\* from a queue of two and returned 2
C29_Witness ==
    /\ lastOp.op = "size" /\ lastOp.ret = 2 /\ ~stopping
    /\ nEnq = 3 /\ Len(_queue) = 2 /\ delivered = <<>>
    /\ Cardinality(evicted) = 1

\* C30: enqueue() of an invalidateviewcursor: message without a parsable
\* viewId, on a queue that is not stopping, does not fail: nothing is
\* evicted and the message is appended.
C30_NoViewIdAppended ==
    [][ (lastOp'.op = "enqueue" /\ nEnq' = nEnq + 1 /\ ~stopping
         /\ lastOp'.item.cmd = "invalidateviewcursor:"
         /\ lastOp'.item.viewId = NoViewId) =>
            /\ ~lastOp'.threw
            /\ _queue' = Append(_queue, lastOp'.item) ]_vars

\* an enqueue() that returns on this step has appended its message
Appends ==
    (lastOp'.op = "enqueue" /\ nEnq' = nEnq + 1 /\ ~lastOp'.threw) =>
        (_queue' # <<>> /\ _queue'[Len(_queue')] = lastOp'.item)

\* a dequeue() of this step on a queue that holds a message returns its head
Delivers ==
    (lastOp'.op = "dequeue" /\ _queue # <<>>) =>
        /\ lastOp'.ok
        /\ lastOp'.item = Head(_queue)
        /\ _queue' = Tail(_queue)

MutexStamped == { Stamp(m, n) : m \in MutexItems, n \in 1 .. MaxEnq }

\* C32: enqueue, dequeue and size are atomic with respect to one another:
\* under every interleaving of a producer, a consumer and a thread that asks
\* for the size no message is dequeued twice, every appended message is in
\* the queue, evicted by dedup or dequeued, and in one of these only, a
\* size() returns the length of a queue no other call is working on, and a
\* queued message is in the end dequeued unless dedup evicts it or the
\* queue is stopping.
C32_Atomic ==
    /\ [](\A i, j \in 1 .. Len(delivered) : delivered[i] = delivered[j] => i = j)
    /\ [](/\ appended = Range(delivered) \cup evicted \cup Range(_queue)
          /\ Range(delivered) \cap evicted = {}
          /\ Range(delivered) \cap Range(_queue) = {}
          /\ evicted \cap Range(_queue) = {}
          /\ Cardinality(Range(_queue)) = Len(_queue))
    /\ [][ (thread["input"].pc = "size:return" /\ thread'["input"].pc = "idle") =>
              /\ thread["engine"].pc = "idle" /\ thread["sender"].pc = "idle"
              /\ lastOp'.ret = Len(_queue) ]_vars
    /\ \A m \in MutexStamped :
          (m \in Range(_queue)) ~> (m \in Range(delivered) \cup evicted \/ stopping)

\* three messages were appended: dedup has evicted one, the consumer has
\* dequeued one, and size() has just returned 1 for the one that is left
C32_Witness ==
    /\ Cardinality(appended) = 3 /\ Cardinality(evicted) = 1
    /\ Len(delivered) = 1 /\ Len(_queue) = 1
    /\ lastOp.op = "size" /\ lastOp.ret = 1 /\ ~stopping
    /\ \A t \in Threads : thread[t].pc = "idle"


(***************************************************************************)
(* Properties of the replay, checked under ScenarioSpec and SessionSpec.   *)
(***************************************************************************)
\* the frames replay number r has forwarded for buffered events, in order
ReplayedBy(r) == SelectSeq(forwarded, LAMBDA f : f.replay = r /\ f.type # "")

\* the category of a replayed frame: A the invalidation replay makes up, B per
\* type, C per view, D named state, E sequence
Category(f) ==
    IF f.type = "INVALIDATE_TILES" THEN "A"
    ELSE IF f.type \in PerViewEvents THEN "C"
    ELSE IF f.type \in PerTypeEvents THEN "B"
    ELSE IF f.type = "STATE_CHANGED" THEN "D"
    ELSE "E"

\* every replay forwards its frames by category in the given order, and the
\* sequence entries among them in the order of their arrival
ReplaysInOrder(order) ==
    \A r \in 1 .. nUserActive :
        LET out == ReplayedBy(r) IN
        \A i, j \in 1 .. Len(out) :
            i < j =>
              /\ Rank(order, Category(out[i])) <= Rank(order, Category(out[j]))
              /\ (Category(out[i]) = "E" /\ Category(out[j]) = "E")
                    => out[i].gen < out[j].gen

SentEvents == SelectSeq(SubSeq(forwarded', Len(forwarded) + 1, Len(forwarded')),
                        LAMBDA f : f.type # "")

\* C27: a replay that finds the invalidate flag set forwards the made-up
\* invalidatetiles: before every other replayed message: it is the first
\* message of the replay and the only tile invalidation in it.
C27_InvalidateFirst ==
    [][ (input = "replay" /\ input' = "clear" /\ _stateRecorder._invalidate) =>
            /\ SentEvents # <<>>
            /\ SentEvents[1].cmd = "invalidatetiles:"
            /\ SentEvents[1].type = "INVALIDATE_TILES"
            /\ SentEvents[1].area.form = "rect"
            /\ \A i \in 2 .. Len(SentEvents) : SentEvents[i].type # "INVALIDATE_TILES" ]_vars

\* the first replay has forwarded the invalidation, a view cursor and a comment
C27_Witness ==
    LET out == ReplayedBy(1) IN
    /\ input = "clear"
    /\ Len(out) = 3
    /\ out[1].cmd = "invalidatetiles:" /\ out[1].replay = 1
    /\ out[2].cmd = "invalidateviewcursor:"
    /\ out[3].cmd = "comment:"

\* C28: in every replay the per-view messages come before the per-type
\* messages, and both before the first sequence entry.
C28_CurrentValuesBeforeSequence ==
    \A r \in 1 .. nUserActive :
        LET out == ReplayedBy(r) IN
        \A i, j \in 1 .. Len(out) :
            (i < j /\ {Category(out[i]), Category(out[j])} \subseteq {"C", "B", "E"})
                => Rank(<< "C", "B", "E" >>, Category(out[i]))
                      <= Rank(<< "C", "B", "E" >>, Category(out[j]))

\* the first replay has forwarded a view cursor, a cursor and both comments
C28_Witness ==
    LET out == ReplayedBy(1) IN
    /\ input = "clear"
    /\ Len(out) = 4
    /\ out[1].cmd = "invalidateviewcursor:"
    /\ out[2].cmd = "invalidatecursor:"
    /\ out[3].cmd = "comment:" /\ out[4].cmd = "comment:"

\* two frames are of the same latest-wins key: the same per-type event, the
\* same per-view event of the same view, or the state of the same name
SameLatestKey(f, g) ==
    /\ f.type = g.type
    /\ \/ f.type \in PerTypeEvents
       \/ f.type \in PerViewEvents /\ f.viewId = g.viewId
       \/ f.type = "STATE_CHANGED" /\ f.name = g.name

\* C3: under every interleaving of engine callbacks with a reactivation, a
\* payload recorded while inactive is never forwarded after a newer payload
\* of the same key that was forwarded live.
C3_NeverStale ==
    \A i, j \in 1 .. Len(forwarded) :
        (i < j /\ SameLatestKey(forwarded[i], forwarded[j])
               /\ forwarded[i].replay = 0 /\ forwarded[j].replay > 0)
            => forwarded[i].gen < forwarded[j].gen


(***************************************************************************)
(* Properties of loKitCallback, checked under SessionSpec, and of the      *)
(* recorder, checked under RecorderSpec.                                   *)
(***************************************************************************)
\* the frames this step gives to sendTextFrame
Sent == SubSeq(forwarded', Len(forwarded) + 1, Len(forwarded'))

\* this step is the return of the callback that waits at pc
Returns(pc) == cb.pc = pc /\ cb'.pc = "idle"

\* this step is the replay of a "useractive"
Replays == input = "replay" /\ input' = "clear"

\* this step is the clear that ends a replay
Clears == input = "clear" /\ input' = "idle"

\* the session is neither closing nor disconnected
Open == ~_isCloseFrame /\ ~_disconnected

\* the frames of this step that come from callback e or from one of its key
SentFor(e) ==
    SelectSeq(Sent, LAMBDA f : f.type = e.type /\ f.viewId = e.viewId /\ f.name = e.name)

\* the last item of the queue after this step is frame f
QueuedLast(f) ==
    /\ _queue' # <<>>
    /\ _queue'[Len(_queue')] = FrameItem(f, nEnq')

\* the frames with which a non-text document opens a replay
IsPartFrame(f) == f.type = "" /\ f.cmd \in {"curpart:", "setpart:"}

\* C12 as it is stated: a second reactivation with nothing recorded in
\* between forwards nothing to the queue.
C12_SecondReplayForwardsNothing ==
    [][ (Replays /\ nUserActive >= 2 /\ _stateRecorder = EmptyRecorder) =>
            (forwarded' = forwarded /\ _queue' = _queue) ]_vars

\* C12, amended: the recorder is empty after every replay and a replay
\* emits only what was recorded since the clear of the replay before, no
\* event twice; a reactivation with nothing recorded forwards no buffered
\* event, only curpart: and setpart: for a document that is not a text
\* document.
C12_ReplayClears ==
    [][ /\ Clears => _stateRecorder' = EmptyRecorder
        /\ Replays =>
              /\ \A i \in 1 .. Len(Sent) :
                    \/ IsPartFrame(Sent[i]) /\ _docType # "text"
                    \/ Sent[i].type = "INVALIDATE_TILES" /\ _stateRecorder._invalidate
                    \/ \E e \in _stateRecorder._recordedEvents
                                \cup _stateRecorder._recordedViewEvents
                                \cup _stateRecorder._recordedStates
                                \cup Range(_stateRecorder._recordedEventsVector) :
                          Sent[i].gen = e.gen /\ Sent[i].type = e.type
              /\ \A i \in 1 .. Len(Sent) : \A j \in 1 .. Len(forwarded) :
                    (Sent[i].gen > 0 /\ forwarded[j].replay > 0)
                        => Sent[i].gen # forwarded[j].gen
              /\ _stateRecorder = EmptyRecorder =>
                    Sent = SelectSeq(Sent, IsPartFrame) ]_vars

\* a spreadsheet was reactivated twice: the first replay forwarded a buffered
\* event, the second one only its part frames, and the recorder is empty
C12_Witness ==
    /\ nUserActive = 2 /\ input = "idle"
    /\ _docType = "spreadsheet"
    /\ _stateRecorder = EmptyRecorder
    /\ ReplayedBy(1) # <<>>
    /\ ReplayedBy(2) = <<>>
    /\ \E i \in 1 .. Len(forwarded) : forwarded[i].replay = 2 /\ IsPartFrame(forwarded[i])

\* C13: the result of the save command that arrives while the session is
\* inactive is forwarded to the queue within the callback, not deferred to
\* the replay.
C13_SaveResultPassesThrough ==
    [][ (Returns("remember") /\ cb.ev.type = "UNO_COMMAND_RESULT"
         /\ cb.ev.name = ".uno:Save") =>
            /\ Sent = << Frame("unocommandresult:", cb.ev, 0) >>
            /\ QueuedLast(Frame("unocommandresult:", cb.ev, 0)) ]_vars

\* an inactive session that has recorded a cursor has just forwarded a save result
C13_Witness ==
    /\ ~_isActive /\ nUserActive = 0 /\ cb = Idle
    /\ Len(engineLog) = 2
    /\ engineLog[1] \in _stateRecorder._recordedEvents
    /\ engineLog[2].type = "UNO_COMMAND_RESULT" /\ engineLog[2].name = ".uno:Save"
    /\ forwarded[Len(forwarded)] = Frame("unocommandresult:", engineLog[2], 0)
    /\ _queue[Len(_queue)].cmd = "unocommandresult:"

\* C14: while the session is inactive no callback other than the result of
\* the save command makes a message go to the queue before the next
\* reactivation.
C14_OnlySaveForwarded ==
    [][ (Returns("remember")
         /\ ~(cb.ev.type = "UNO_COMMAND_RESULT" /\ cb.ev.name = ".uno:Save")) =>
            (forwarded' = forwarded /\ _queue' = _queue) ]_vars

C16_ClosingSuppresses ==
    [][ /\ (Len(engineLog') > Len(engineLog) /\ (_isCloseFrame \/ _disconnected)) =>
              /\ cb' = Idle
              /\ UNCHANGED <<forwarded, _queue, _stateRecorder>>
        /\ (Replays /\ (_isCloseFrame \/ _disconnected)) =>
              /\ \A i \in 1 .. Len(Sent) : IsPartFrame(Sent[i])
              /\ _stateRecorder' = _stateRecorder ]_vars

\* a session that was always active forwarded a callback, got a close frame
\* and then a cursor, of which it forwarded and recorded nothing
C16_Witness ==
    /\ _isCloseFrame /\ _isActive /\ nUserActive = 0 /\ cb = Idle
    /\ _stateRecorder = EmptyRecorder
    /\ Len(engineLog) = 2
    /\ engineLog[2].type = "INVALIDATE_VISIBLE_CURSOR"
    /\ \E i \in 1 .. Len(forwarded) : forwarded[i].gen = 1
    /\ \A i \in 1 .. Len(forwarded) : forwarded[i].gen # 2

\* the callback that returns records an event of the types of S
Records(S) == Returns("remember") /\ cb.ev.type \in S

\* the replay forwards one message for the recorded event e, with its payload
ReplaysOne(e) == SentFor(e) = << Frame(CommandOf(e.type), e, nUserActive) >>

\* C18 as it is stated: a per-type event overwrites the recorded event of
\* its type and no other, and the replay forwards one message for each
\* recorded type, with the payload recorded last.
C18_OneMessagePerType ==
    [][ /\ Records(PerTypeEvents) =>
              _stateRecorder'._recordedEvents =
                  { e \in _stateRecorder._recordedEvents : e.type # cb.ev.type }
                  \cup { cb.ev }
        /\ (Replays /\ Open) =>
              \A e \in _stateRecorder._recordedEvents : ReplaysOne(e) ]_vars

\* C18, amended: a per-type event overwrites the recorded event of its type
\* and no other, and the replay makes one callback for each recorded type,
\* with the payload recorded last: for document-size-changed that forwards
\* an invalidatetiles: of the full extent for each part and a status:
\* message, for every other type one message with the payload.
C18_OneCallbackPerType ==
    [][ /\ Records(PerTypeEvents) =>
              _stateRecorder'._recordedEvents =
                  { e \in _stateRecorder._recordedEvents : e.type # cb.ev.type }
                  \cup { cb.ev }
        /\ (Replays /\ Open) =>
              \A e \in _stateRecorder._recordedEvents :
                 IF e.type # "DOCUMENT_SIZE_CHANGED" THEN ReplaysOne(e)
                 ELSE LET out == SentFor(e) IN
                      /\ Len(out) = getParts + 1
                      /\ \A i \in 1 .. getParts :
                            /\ out[i].cmd = "invalidatetiles:"
                            /\ out[i].part = i - 1
                            /\ out[i].payload = FullExtent
                      /\ out[Len(out)].cmd = "status:"
                      /\ \A i \in 1 .. Len(out) :
                            out[i].gen = e.gen /\ out[i].replay = nUserActive ]_vars

\* two visible-cursor callbacks arrived in one inactive period and the replay
\* has forwarded one invalidatecursor:, that of the second
C18_Witness ==
    /\ input = "clear" /\ nUserActive = 1
    /\ Len(engineLog) = 2
    /\ engineLog[1].type = "INVALIDATE_VISIBLE_CURSOR"
    /\ engineLog[2].type = "INVALIDATE_VISIBLE_CURSOR"
    /\ SelectSeq(forwarded, LAMBDA f : f.gen > 0)
          = << Frame("invalidatecursor:", engineLog[2], 1) >>

\* C19: a per-view event overwrites the recorded event of its viewId and
\* type and no other, and the replay of a session that is neither closing
\* nor disconnected forwards one message for each recorded (viewId, type),
\* with the payload recorded last.
C19_OneMessagePerViewAndType ==
    [][ /\ (Records(PerViewEvents) /\ cb.ev.viewId # NoViewId) =>
              _stateRecorder'._recordedViewEvents =
                  { e \in _stateRecorder._recordedViewEvents :
                       e.viewId # cb.ev.viewId \/ e.type # cb.ev.type }
                  \cup { cb.ev }
        /\ (Replays /\ Open) =>
              /\ \A e \in _stateRecorder._recordedViewEvents : ReplaysOne(e)
              /\ \A i \in 1 .. Len(Sent) :
                    Sent[i].type \in PerViewEvents =>
                       \E e \in _stateRecorder._recordedViewEvents :
                          Sent[i] = Frame(CommandOf(e.type), e, nUserActive) ]_vars

\* two view cursors of view 1 arrived in one inactive period and the replay
\* has forwarded one invalidateviewcursor:, that of the second
C19_Witness ==
    /\ input = "clear" /\ nUserActive = 1
    /\ Len(engineLog) = 2
    /\ engineLog[1].type = "INVALIDATE_VIEW_CURSOR" /\ engineLog[1].viewId = "1"
    /\ engineLog[2].type = "INVALIDATE_VIEW_CURSOR" /\ engineLog[2].viewId = "1"
    /\ SelectSeq(forwarded, LAMBDA f : f.gen > 0)
          = << Frame("invalidateviewcursor:", engineLog[2], 1) >>

\* C20: a state change is recorded under the name of its name=value payload
\* and overwrites the recorded state of that name and no other, and the
\* replay of a session that is neither closing nor disconnected forwards
\* one statechanged: message for each recorded name, with the payload
\* recorded last.
C20_OneMessagePerStateName ==
    [][ /\ (Records({"STATE_CHANGED"}) /\ cb.ev.name # NoName) =>
              _stateRecorder'._recordedStates =
                  { e \in _stateRecorder._recordedStates : e.name # cb.ev.name }
                  \cup { cb.ev }
        /\ (Replays /\ Open) =>
              /\ \A e \in _stateRecorder._recordedStates :
                    SentFor(e) = << Frame("statechanged:", e, nUserActive) >>
              /\ \A i \in 1 .. Len(Sent) :
                    Sent[i].type = "STATE_CHANGED" =>
                       \E e \in _stateRecorder._recordedStates :
                          Sent[i] = Frame("statechanged:", e, nUserActive) ]_vars

\* two states of .uno:Bold arrived in one inactive period and the replay has
\* forwarded one statechanged:, that of the second
C20_Witness ==
    /\ input = "clear" /\ nUserActive = 1
    /\ Len(engineLog) = 2
    /\ engineLog[1].type = "STATE_CHANGED" /\ engineLog[1].name = ".uno:Bold"
    /\ engineLog[2].type = "STATE_CHANGED" /\ engineLog[2].name = ".uno:Bold"
    /\ SelectSeq(forwarded, LAMBDA f : f.gen > 0)
          = << Frame("statechanged:", engineLog[2], 1) >>

\* C25: the record of a callback and the iteration and clear of replay hold
\* the same lock, so no record step falls between the replay's iteration
\* and its clear.
C25_RecordNeverInsideReplay ==
    [][ Returns("remember") => input # "clear" ]_vars

\* the replay with the number r has emitted the recorded event e, or a
\* newer one of its key
Emitted(e, r) ==
    \E i \in 1 .. Len(forwarded) :
        /\ forwarded[i].replay = r
        /\ forwarded[i].type = e.type
        /\ forwarded[i].viewId = e.viewId
        /\ forwarded[i].name = e.name
        /\ forwarded[i].gen >= e.gen

\* C26: under every interleaving, whatever the recorder holds for a session
\* that is neither closing nor disconnected has been forwarded by the
\* replay when the clear at its end discards it.
C26_ClearDiscardsOnlyEmitted ==
    [][ (Clears /\ Open) =>
            /\ _stateRecorder._invalidate =>
                  \E i \in 1 .. Len(forwarded) :
                      /\ forwarded[i].replay = nUserActive
                      /\ forwarded[i].type = "INVALIDATE_TILES"
            /\ \A e \in _stateRecorder._recordedEvents
                        \cup _stateRecorder._recordedViewEvents
                        \cup _stateRecorder._recordedStates :
                  Emitted(e, nUserActive)
            /\ \A k \in 1 .. Len(_stateRecorder._recordedEventsVector) :
                  Emitted(_stateRecorder._recordedEventsVector[k], nUserActive) ]_vars

(***************************************************************************)
(* Properties of the sequence and of the tile invalidations, checked      *)
(* under SequenceSpec and TilesSpec.                                       *)
(***************************************************************************)
\* the frames of this step that come from sequence events
SentSequence == SelectSeq(Sent, LAMBDA f : f.type \in SequenceEvents)

\* C21: a sequence event recorded while inactive is appended to the
\* recorded sequence, which nothing but the clear of a replay shortens or
\* rewrites, and the replay of a session that is neither closing nor
\* disconnected forwards one message for every entry, in the order of
\* arrival, repeats of a type and payload included.
C21_SequenceKept ==
    [][ /\ Records(SequenceEvents) =>
              _stateRecorder'._recordedEventsVector =
                  Append(_stateRecorder._recordedEventsVector, cb.ev)
        /\ _stateRecorder'._recordedEventsVector # _stateRecorder._recordedEventsVector =>
              Records(SequenceEvents) \/ Clears
        /\ (Replays /\ Open) =>
              SentSequence =
                  [ k \in 1 .. Len(_stateRecorder._recordedEventsVector) |->
                      LET e == _stateRecorder._recordedEventsVector[k]
                      IN Frame(CommandOf(e.type), e, nUserActive) ] ]_vars

\* the same comment arrived twice in one inactive period and the replay has
\* forwarded two comment: messages, in the order of arrival
C21_Witness ==
    /\ input = "clear" /\ nUserActive = 1
    /\ Len(engineLog) = 2
    /\ engineLog[1].type = "COMMENT" /\ engineLog[1].payload = 1
    /\ engineLog[2].type = "COMMENT" /\ engineLog[2].payload = 1
    /\ SelectSeq(forwarded, LAMBDA f : f.gen > 0)
          = << Frame("comment:", engineLog[1], 1), Frame("comment:", engineLog[2], 1) >>

\* the recorder holds the event ev
Holds(rec, ev) ==
    \/ ev \in rec._recordedEvents \cup rec._recordedViewEvents \cup rec._recordedStates
    \/ \E k \in 1 .. Len(rec._recordedEventsVector) : rec._recordedEventsVector[k] = ev

\* C23: a per-view callback without a parsable viewId that arrives while
\* inactive is stored in the recorder for the next replay.
C23_NoViewIdStored ==
    [][ (Records(PerViewEvents) /\ cb.ev.viewId = NoViewId) =>
            Holds(_stateRecorder', cb.ev) ]_vars

\* the invalidatetiles: frames of this step
SentTiles == SelectSeq(Sent, LAMBDA f : f.cmd = "invalidatetiles:")

\* C22: a tile invalidation that arrives while inactive sets the invalidate
\* flag and nothing else, whatever its payload, and the replay of a session
\* that is neither closing nor disconnected forwards, if the flag is set,
\* exactly one invalidatetiles: with x=0, y=0, width=height=INT_MAX and the
\* current part (0 for a text document, the part of curpart: otherwise), and
\* none if it is not set.
C22_InvalidateLatch ==
    [][ /\ Records({"INVALIDATE_TILES"}) =>
              _stateRecorder' = [_stateRecorder EXCEPT !._invalidate = TRUE]
        /\ (Replays /\ Open) =>
              IF _stateRecorder._invalidate
              THEN /\ Len(SentTiles) = 1
                   /\ SentTiles[1].area = Area(0, 0, INT_MAX, INT_MAX)
                   /\ _docType = "text" => SentTiles[1].part = 0
                   /\ _docType # "text" =>
                         /\ Sent[1].cmd = "curpart:"
                         /\ SentTiles[1].part = Sent[1].part
              ELSE SentTiles = <<>> ]_vars

\* two tile invalidations with different payloads arrived in one inactive
\* period of a spreadsheet at its second part, and the replay has forwarded
\* one invalidatetiles: of the full extent for that part
C22_Witness ==
    /\ input = "clear" /\ nUserActive = 1 /\ _docType = "spreadsheet"
    /\ Len(engineLog) = 2
    /\ engineLog[1].type = "INVALIDATE_TILES" /\ engineLog[2].type = "INVALIDATE_TILES"
    /\ engineLog[1].rect # engineLog[2].rect
    /\ Len(forwarded) = 5
    /\ forwarded[3].cmd = "curpart:" /\ forwarded[3].part = 1
    /\ forwarded[5].cmd = "invalidatetiles:" /\ forwarded[5].part = 1
    /\ forwarded[5].area = Area(0, 0, INT_MAX, INT_MAX)

\* the live path handles a five-field tile invalidation with a field out of
\* the range of int
LiveOutOfRange ==
    /\ Returns("switch")
    /\ cb.ev.type = "INVALIDATE_TILES"
    /\ cb.ev.rect.kind = "rect"
    /\ cb.ev.rect.big # {}

\* C24 as it is stated: a live tile invalidation whose five-field payload
\* has an integer out of the range of int forwards exactly one
\* invalidatetiles:, with part=0 x=0 y=0 width=INT_MAX height=INT_MAX.
C24_OutOfRangeClamped ==
    [][ LiveOutOfRange =>
            /\ Len(Sent) = 1
            /\ Sent[1].cmd = "invalidatetiles:"
            /\ Sent[1].part = 0
            /\ Sent[1].area = Area(0, 0, INT_MAX, INT_MAX) ]_vars

\* C24, amended: exactly one invalidatetiles: is forwarded; it is clamped
\* to part=0 x=0 y=0 width=INT_MAX height=INT_MAX when x, y, width or
\* height is out of range, or the part of a document that is not a text
\* document; the part field of a text document is not read, and alone out
\* of range it leaves the rectangle as given, with part=0.
C24_OutOfRangeRectClamped ==
    [][ LiveOutOfRange =>
            /\ Len(Sent) = 1
            /\ Sent[1].cmd = "invalidatetiles:"
            /\ Sent[1].part = 0
            /\ Sent[1].area =
                  IF _docType = "text" /\ cb.ev.rect.big = {"part"}
                  THEN Area(cb.ev.rect.x, cb.ev.rect.y, cb.ev.rect.width, cb.ev.rect.height)
                  ELSE Area(0, 0, INT_MAX, INT_MAX) ]_vars

\* the live path of a spreadsheet has forwarded the clamped invalidatetiles:
\* of a tile invalidation whose x is out of range
C24_Witness ==
    /\ cb = Idle /\ _docType = "spreadsheet"
    /\ Len(engineLog) = 1
    /\ engineLog[1].type = "INVALIDATE_TILES" /\ engineLog[1].rect.big = {"x"}
    /\ Len(forwarded) = 3
    /\ forwarded[3].replay = 0 /\ forwarded[3].gen = 1
    /\ forwarded[3].cmd = "invalidatetiles:" /\ forwarded[3].part = 0
    /\ forwarded[3].area = Area(0, 0, INT_MAX, INT_MAX)

(***************************************************************************)
(* Properties of the locks, checked under LockFairSpec.                    *)
(***************************************************************************)
NoLock == "none"

\* the lock a thread inside case LOK_CALLBACK_DOCUMENT_SIZE_CHANGED takes next
SizeChangedWaits(t) ==
    CASE thread[t].pc \in {"idle", "status:lock"} -> "documentMutex"
      [] thread[t].pc \in {"size:send", "status:send"} -> "_mutex"
      [] OTHER -> NoLock

\* the lock the next step of thread t takes, if it takes one
Waits(t) ==
    CASE t = "engine" ->
            IF cb.pc = "remember" THEN "getLock"
            ELSE IF InSizeChanged(t) THEN SizeChangedWaits(t)
            ELSE IF cb.pc = "switch" THEN "_mutex"
            ELSE NoLock
      [] t = "input" ->
            IF input = "replay" THEN "Mutex"
            ELSE IF input = "replay:document" THEN "documentMutex"
            ELSE IF input = "replay:loops" THEN "_mutex"
            ELSE IF InSizeChanged(t) THEN SizeChangedWaits(t)
            ELSE NoLock
      [] OTHER -> NoLock

\* thread t cannot go on: the lock it has to take is held, the recursive
\* Mutex by another thread
Blocked(t) ==
    /\ Waits(t) # NoLock
    /\ locks[Waits(t)] # NoThread
    /\ Waits(t) = "Mutex" => locks[Waits(t)] # t

\* no thread is inside a call
AllIdle ==
    /\ cb.pc = "idle" /\ input = "idle"
    /\ \A t \in Threads : thread[t].pc = "idle"

\* C33: no operation blocks for ever: in no reachable state a set of
\* threads waits for locks that threads of the set hold, and every
\* callback, every replay and every dequeue that has begun returns.
C33_NoIndefiniteBlocking ==
    /\ [](\A S \in SUBSET Threads :
            S # {} => \E t \in S : ~Blocked(t) \/ locks[Waits(t)] \notin S)
    /\ []<>(cb.pc = "idle" /\ thread["engine"].pc = "idle")
    /\ []<>(input = "idle" /\ thread["input"].pc = "idle")
    /\ []<>(thread["sender"].pc = "idle")

\* the engine waits for the document mutex that the input thread holds at
\* the start of a replay, while the sender is inside dequeue
C33_Witness ==
    /\ input = "replay:view" /\ locks["Mutex"] = "input"
    /\ locks["documentMutex"] = "input"
    /\ InSizeChanged("engine") /\ Blocked("engine")
    /\ thread["sender"].pc = "dequeue:pop_front" /\ locks["_mutex"] = "sender"

(***************************************************************************)
(* Properties of the two forwarding paths, checked under ForwardSpec.      *)
(***************************************************************************)
\* the frames a live callback with the type and payload of e forwards on an
\* active session, marked as frames of replay r
LiveFrames(e, r) ==
    [ i \in 1 .. Len(switchFrames(e, 0)) |-> [switchFrames(e, 0)[i] EXCEPT !.replay = r] ]

RECURSIVE LiveFramesOfAll(_, _)
LiveFramesOfAll(events, r) ==
    IF events = <<>> THEN <<>>
    ELSE LiveFrames(Head(events), r) \o LiveFramesOfAll(Tail(events), r)

ReactivatesWithoutDocument == ~_isDocLoaded /\ nUserActive' = nUserActive + 1

\* C35: a "useractive" without a document is fatal: its handler sends no
\* error message and does not return to take the next message.
C35_NoContextIsFatal ==
    [][ ReactivatesWithoutDocument => (Sent = <<>> /\ input' # "idle") ]_vars

(***************************************************************************)
(* Properties of the callbacks of an inactive session that the recorder    *)
(* has no container for, checked under SessionSpec.                        *)
(***************************************************************************)
\* e is of a type of none of the five categories of the recorder
Uncategorised(e) ==
    e.type \notin {"INVALIDATE_TILES", "STATE_CHANGED"}
                     \cup PerTypeEvents \cup PerViewEvents \cup SequenceEvents

\* e is the result of the save command
IsSaveResult(e) == e.type = "UNO_COMMAND_RESULT" /\ e.name = ".uno:Save"

\* C36: a callback of an inactive session whose type is of no category and
\* which is not the result of the save command leaves the recorder and the
\* queue as they are, and a message of such a callback is only ever sent by
\* the callback itself on the live path, never by a replay.
C36_UncategorisedDropped ==
    [][ /\ (Returns("remember") /\ Uncategorised(cb.ev) /\ ~IsSaveResult(cb.ev)) =>
              (_stateRecorder' = _stateRecorder /\ Sent = <<>> /\ _queue' = _queue)
        /\ \A i \in 1 .. Len(Sent) :
              (Sent[i].gen > 0 /\ Uncategorised(Sent[i]) /\ ~IsSaveResult(Sent[i])) =>
                  (Returns("switch") /\ cb.ev.gen = Sent[i].gen) ]_vars

(***************************************************************************)
(* The recorder of an active session, checked under SessionSpec.           *)
(***************************************************************************)
\* C37: while the session is active and no replay is in progress the
\* recorder is empty, and every record step is taken on an inactive session.
C37_ActiveRecorderEmpty ==
    /\ []((_isActive /\ input = "idle") => _stateRecorder = EmptyRecorder)
    /\ [][ (_stateRecorder' # _stateRecorder /\ ~Clears) => ~_isActive ]_vars

(***************************************************************************)
(* The result of the save command on an inactive session, checked under    *)
(* SaveSpec.                                                               *)
(***************************************************************************)
\* the frames forwarded so far for the callback with the number g
FramesOf(g) == SelectSeq(forwarded, LAMBDA f : f.gen = g)

\* C38: the result of the save command that arrives while the session is
\* inactive is forwarded once: the callback sends one message on the live
\* path and records nothing, and no replay sends a message for it.
C38_SaveResultOnce ==
    /\ [][ (Returns("remember") /\ IsSaveResult(cb.ev)) =>
              /\ Len(Sent) = 1 /\ Sent[1].gen = cb.ev.gen /\ Sent[1].replay = 0
              /\ _stateRecorder' = _stateRecorder ]_vars
    /\ [](\A g \in 1 .. Len(engineLog) :
            IsSaveResult(engineLog[g]) =>
                /\ Len(FramesOf(g)) <= 1
                /\ \A i \in 1 .. Len(FramesOf(g)) : FramesOf(g)[i].replay = 0)

\* an inactive session recorded a cursor and forwarded a save result; the
\* replay has sent the cursor and the save result is still forwarded once
C38_Witness ==
    /\ _isActive /\ input = "idle" /\ nUserActive = 1 /\ cb = Idle
    /\ Len(engineLog) = 2
    /\ engineLog[1].type = "INVALIDATE_VISIBLE_CURSOR"
    /\ IsSaveResult(engineLog[2])
    /\ _stateRecorder = EmptyRecorder
    /\ FramesOf(1) = << Frame("invalidatecursor:", engineLog[1], 1) >>
    /\ FramesOf(2) = << Frame("unocommandresult:", engineLog[2], 0) >>

(***************************************************************************)
(* A state whose payload does not parse, checked under StateSpec.          *)
(***************************************************************************)
\* e is a state-changed callback whose payload is no name=value pair
Unparsable(e) == e.type = "STATE_CHANGED" /\ e.name = NoName

\* C39: a state-changed callback of an inactive session whose payload is
\* no name=value pair leaves the recorder and the queue as they are, and
\* a message for such a callback is only ever sent by the callback itself
\* on the live path, never by a replay.
C39_UnparsableStateDropped ==
    [][ /\ (Returns("remember") /\ Unparsable(cb.ev)) =>
              (_stateRecorder' = _stateRecorder /\ Sent = <<>> /\ _queue' = _queue)
        /\ \A i \in 1 .. Len(Sent) :
              Unparsable(Sent[i]) => (Returns("switch") /\ cb.ev.gen = Sent[i].gen) ]_vars

\* an inactive session got a state without '=' and the state of Bold; the
\* replay has sent Bold and nothing for the other
C39_Witness ==
    /\ _isActive /\ input = "idle" /\ nUserActive = 1 /\ cb = Idle
    /\ Len(engineLog) = 2
    /\ Unparsable(engineLog[1])
    /\ engineLog[2].type = "STATE_CHANGED" /\ engineLog[2].name = ".uno:Bold"
    /\ _stateRecorder = EmptyRecorder
    /\ FramesOf(1) = <<>>
    /\ FramesOf(2) = << Frame("statechanged:", engineLog[2], 1) >>

(***************************************************************************)
(* The reactivation of a closing or disconnected session, checked under    *)
(* ClosingSpec.                                                            *)
(***************************************************************************)
\* what the recorder holds
Buffered(rec) ==
    rec._recordedEvents \cup rec._recordedViewEvents \cup rec._recordedStates
        \cup Range(rec._recordedEventsVector)

\* C40: the replay of a session that is closing or disconnected forwards no
\* message for a buffered event, the clear at its end empties the recorder
\* all the same, and no replay of such a session ever sends a message of a
\* callback.
C40_ClosingReplayDiscards ==
    [][ ~Open =>
          /\ Replays =>
                /\ SentEvents = <<>>
                /\ \A i \in 1 .. Len(_queue') :
                      _queue'[i] \in Range(_queue) \/ _queue'[i].cmd \in {"curpart:", "setpart:"}
          /\ Clears => _stateRecorder' = EmptyRecorder
          /\ \A i \in 1 .. Len(Sent) : Sent[i].replay = 0 \/ Sent[i].gen = 0 ]_vars

\* a session that recorded a tile invalidation and a cursor got a close
\* frame and then "useractive": the replay is over, it has sent nothing for
\* them, and the clear that discards them is the next step
C40_Witness ==
    /\ _isCloseFrame /\ input = "clear" /\ nUserActive = 1
    /\ Len(engineLog) = 2
    /\ _stateRecorder._invalidate
    /\ engineLog[2] \in Buffered(_stateRecorder)
    /\ FramesOf(1) = <<>> /\ FramesOf(2) = <<>>
    /\ \A i \in 1 .. Len(forwarded) : forwarded[i].gen = 0

====
